---- MODULE Spec2Model ----
(***************************************************************************)
(* Model of aws-cdk-lib core/lib/private/tree-metadata.ts: the construct   *)
(* tree builder (TreeMetadata._synthesizeTree), the canonical attribute    *)
(* serialisation (canonicalize / serialize), the content hash and the      *)
(* tree differ (treeDifference / foo).                                     *)
(*                                                                         *)
(* Strings are sequences of text tokens.  An optional value (undefined or  *)
(* a value) is a sequence of length 0 or 1.  A JavaScript object used as a *)
(* map is the sequence of its entries in property (insertion) order.       *)
(***************************************************************************)
EXTENDS Integers, Sequences, FiniteSets, TLC

\* ------------------------------------------------------------------------
\* Bounds of the model
\* ------------------------------------------------------------------------

\* number of changes made to the construct structure in one behaviour
MaxEdits == 3

\* the paths of the constructs the application can create below the root
Universe == { << "A" >>, << "B" >>, << "A", "B" >>, << "A", "parent" >> }

\* ------------------------------------------------------------------------
\* Text
\* ------------------------------------------------------------------------

\* the tokens of the model's strings, in UTF-16 code unit order
CharOrder ==
  << "\"", "(", ")", ",", "1", "2", ":", "<", ">", "D", "[", "]",
     "a", "b", "parent", "s", "t", "{", "}" >>

Ord(c) == CHOOSE i \in 1..Len(CharOrder) : CharOrder[i] = c

RECURSIVE LexLess(_, _)
\* a < b on strings, as JavaScript compares them (code unit by code unit)
LexLess(a, b) ==
  IF b = << >> THEN FALSE
  ELSE IF a = << >> THEN TRUE
  ELSE IF Head(a) = Head(b) THEN LexLess(Tail(a), Tail(b))
  ELSE Ord(Head(a)) < Ord(Head(b))

RECURSIVE Insert(_, _)
Insert(x, sorted) ==
  IF sorted = << >> THEN << x >>
  ELSE IF LexLess(x, Head(sorted)) THEN << x >> \o sorted
  ELSE << Head(sorted) >> \o Insert(x, Tail(sorted))

\* mutant of SortStrings: the array is left in the order it has
SortStringsKeepsOrder(strs) == strs

RECURSIVE SortStrings(_)
\* Array.prototype.sort() without a comparator, on strings
SortStrings(strs) ==
  IF strs = << >> THEN << >>
  ELSE Insert(strs[Len(strs)], SortStrings(SubSeq(strs, 1, Len(strs) - 1)))

RECURSIVE Join(_)
\* Array.prototype.join() without a separator argument: joins with ","
Join(strs) ==
  IF strs = << >> THEN << >>
  ELSE IF Len(strs) = 1 THEN strs[1]
  ELSE strs[1] \o << "," >> \o Join(Tail(strs))

\* ------------------------------------------------------------------------
\* Attribute values: [t, s, kids]
\*   t = "null" | "str" | "num" | "date" | "arr" | "obj"
\*   s    the text of a str, num or date
\*   kids the elements of an arr, the entries [key, value] of an obj
\* ------------------------------------------------------------------------

Null == [t |-> "null", s |-> "", kids |-> << >>]
Str(s) == [t |-> "str", s |-> s, kids |-> << >>]
Num(s) == [t |-> "num", s |-> s, kids |-> << >>]
Date(s) == [t |-> "date", s |-> s, kids |-> << >>]
Arr(elems) == [t |-> "arr", s |-> "", kids |-> elems]
Obj(pairs) == [t |-> "obj", s |-> "", kids |-> pairs]
Pair(k, v) == [key |-> k, value |-> v]

RECURSIVE InsertPair(_, _)
InsertPair(p, sorted) ==
  IF sorted = << >> THEN << p >>
  ELSE IF Ord(p.key) < Ord(Head(sorted).key) THEN << p >> \o sorted
  ELSE << Head(sorted) >> \o InsertPair(p, Tail(sorted))

\* mutant of SortPairs: the pairs are left in insertion order
SortPairsKeepsOrder(pairs) == pairs

RECURSIVE SortPairs(_)
\* pairs.sort((a, b) => a.key < b.key ? -1 : a.key > b.key ? 1 : 0)
SortPairs(pairs) ==
  IF pairs = << >> THEN << >>
  ELSE InsertPair(pairs[Len(pairs)], SortPairs(SubSeq(pairs, 1, Len(pairs) - 1)))

\* JSON.stringify of a primitive
JSONstringify(value) ==
  IF value.t = "str" THEN << "\"", value.s, "\"" >> ELSE << value.s >>

RECURSIVE canonicalize(_)
RECURSIVE serialize(_)
RECURSIVE Members(_)
RECURSIVE Values(_)

\* the reduce of canonicalize over the sorted pairs
Members(pairs) ==
  IF pairs = << >> THEN << >>
  ELSE LET text == Members(SubSeq(pairs, 1, Len(pairs) - 1))
           pair == pairs[Len(pairs)]
       IN (IF Len(text) > 0 THEN text \o << "," >> ELSE text)
            \o << "\"", pair.key, "\"", ":" >> \o serialize(pair.value)

\* the reduce of serialize over the elements of an array
Values(elems) ==
  IF elems = << >> THEN << >>
  ELSE LET text == Values(SubSeq(elems, 1, Len(elems) - 1))
       IN (IF Len(text) > 0 THEN text \o << "," >> ELSE text)
            \o serialize(elems[Len(elems)])

\* obj is the sequence of the entries of the mapping, in insertion order
canonicalize(obj) == << "{" >> \o Members(SortPairs(obj)) \o << "}" >>

serialize(value) ==
  IF value.t \in {"null", "date", "arr", "obj"}       \* typeof value === 'object'
  THEN IF value.t = "date"
       THEN << "D", "(", "\"", value.s, "\"", ")" >>   \* Date.parse("<iso>")
       ELSE IF value.t = "arr"
       THEN << "[" >> \o Values(value.kids) \o << "]" >>
       ELSE canonicalize(value.kids)                   \* null has no keys
  ELSE JSONstringify(value)

\* sha256, base64: a deterministic digest without collisions, modelled as a
\* tagging of the hashed text
computeStringHash(str) == << "<" >> \o str \o << ">" >>

\* ------------------------------------------------------------------------
\* The construct structure (the input of the builder) and the state
\* ------------------------------------------------------------------------

VARIABLES
  constructs,  \* the constructs below the root, in creation order:
               \*   [path, attrs]; attrs is << >> when the construct has no
               \*   inspect(), else << the attributes inspect() yields >>
  edits,       \* number of changes made to the structure so far
  file,        \* tree.json in the output directory: << >> or << document >>
  _tree,       \* TreeMetadata._tree: << >> or << lookup >>
  oldTree,     \* the tree the latest pass read from tree.json, if any
  result,      \* what the latest pass returned: << >> when it threw
  warnings,    \* ids the latest pass recorded a warning for
  thrown,      \* paths of the constructs whose inspect() threw in the latest pass
  error,       \* the error the latest pass threw to its caller, "" when none
  objA, objB,  \* two attribute mappings handed to canonicalize
  textA, textB, \* what canonicalize returned for them: << >> or << string >>
  branchPath,  \* the path of the latest _getNodeBranch call: << >> or << path >>
  branch,      \* what that call returned: << >> when it threw
  branchError, \* the error that call threw, "" when none
  importAttrs, \* the GlobalTableAttributes handed to fromTableAttributes
  imported,    \* what fromTableAttributes returned: << >> or << table >>
  importError, \* the error it threw, "" when none
  autoscaledOptions, \* the options handed to Capacity.autoscaled
  capacity,    \* the Capacity the latest factory call made: << >> or << it >>
  capacityError, \* the error that call threw, "" when none
  table,       \* the fields of a GlobalTable: << >> when there is none
  tableError,  \* the error the constructor or the latest call on the table
               \*   threw, "" when none
  replicas     \* what the latest evaluation of the replicas of the
               \*   CfnGlobalTable produced: << >> or << the list >>

treeVars ==
  << constructs, edits, file, _tree, oldTree, result, warnings, thrown, error >>

canonVars == << objA, objB, textA, textB >>

branchVars == << branchPath, branch, branchError >>

importVars == << importAttrs, imported, importError >>

capacityVars == << autoscaledOptions, capacity, capacityError >>

tableVars == << table, tableError, replicas >>

dynamodbVars == << importVars, capacityVars, tableVars >>

vars == << treeVars, canonVars, branchVars, dynamodbVars >>

\* the path of the root construct (the empty string)
RootPath == << >>

\* the path of the TreeMetadata construct itself
TreePath == << "Tree" >>

\* attribute mappings the constructs of the model yield
NoInspect == << >>
EmptyAttributes == << << >> >>
SomeAttributes == << << Pair("a", Num("1")), Pair("parent", Str("s")) >> >>
AttrChoices == {NoInspect, EmptyAttributes, SomeAttributes}

Paths(cs) == {cs[i].path : i \in 1..Len(cs)}

Construct(cs, path) == cs[CHOOSE i \in 1..Len(cs) : cs[i].path = path]

ParentPath(path) == SubSeq(path, 1, Len(path) - 1)

\* construct.node.id
NodeId(path) == IF path = RootPath THEN "" ELSE path[Len(path)]

\* construct.node.children, as paths, in creation order
ChildrenOf(cs, path) ==
  LET IsChild(c) == Len(c.path) = Len(path) + 1 /\ ParentPath(c.path) = path
      kids == SelectSeq(cs, IsChild)
  IN [i \in 1..Len(kids) |-> kids[i].path]

\* what synthAttributes returns when inspect() does not throw
synthAttributes(cs, path) ==
  IF path = RootPath THEN NoInspect ELSE Construct(cs, path).attrs

\* ------------------------------------------------------------------------
\* The lookup table: the nodes in the order their paths were first assigned
\* ------------------------------------------------------------------------

HasPath(lookup, path) == \E i \in 1..Len(lookup) : lookup[i].path = path

Lookup(lookup, path) == lookup[CHOOSE i \in 1..Len(lookup) : lookup[i].path = path]

\* mutant of Assign: the entry is put in front of the entries recorded so far
AssignInFront(lookup, node) == << node >> \o lookup

\* lookup[node.path] = node
Assign(lookup, node) ==
  IF HasPath(lookup, node.path)
  THEN [i \in 1..Len(lookup) |->
          IF lookup[i].path = node.path THEN node ELSE lookup[i]]
  ELSE Append(lookup, node)

\* ------------------------------------------------------------------------
\* visit
\* ------------------------------------------------------------------------

RECURSIVE visit(_, _, _, _)
RECURSIVE visitChildren(_, _, _, _)

\* construct.node.children.map with the try / catch around visit(c):
\* acc = [nodes, lookup, warnings]
visitChildren(cs, kids, acc, throwing) ==
  IF kids = << >> THEN acc
  ELSE LET r == visit(cs, Head(kids), [lookup |-> acc.lookup, warnings |-> acc.warnings],
                      throwing)
           next == IF r.err = ""
                   THEN [nodes |-> acc.nodes \o r.node, lookup |-> r.lookup,
                         warnings |-> r.warnings]
                   ELSE [nodes |-> acc.nodes, lookup |-> r.lookup,
                         warnings |-> Append(r.warnings, NodeId(Head(kids)))]
       IN visitChildren(cs, Tail(kids), next, throwing)

\* construct.node.children.map(child => lookup[child.node.path].hash):
\* reading .hash of a path that is not in the lookup is a TypeError
ChildrenRecorded(lookup, kids) ==
  \A i \in 1..Len(kids) : HasPath(lookup, kids[i])

ChildrenHashes(lookup, kids) ==
  [i \in 1..Len(kids) |-> Lookup(lookup, kids[i]).hash]

\* the parent back-reference of a node
ParentRef(path) ==
  IF path # RootPath /\ ParentPath(path) # RootPath
  THEN << [id |-> NodeId(ParentPath(path)), path |-> ParentPath(path), hash |-> << >>] >>
  ELSE << >>

\* mutant of NodeHash: the digest is salted with state a pass leaves behind
NodeHashSalted(attributes, sortedChildrenHashes) ==
  LET salt == IF _tree = << >> THEN << >> ELSE << "1" >>
  IN IF attributes # << >>
     THEN computeStringHash(canonicalize(attributes[1]) \o salt)
     ELSE computeStringHash(Join(sortedChildrenHashes) \o salt)

\* mutant of NodeHash: the children's hashes are mixed into the digest of the
\* attributes
NodeHashWithChildren(attributes, sortedChildrenHashes) ==
  IF attributes # << >>
  THEN computeStringHash(canonicalize(attributes[1]) \o Join(sortedChildrenHashes))
  ELSE computeStringHash(Join(sortedChildrenHashes))

NodeHash(attributes, sortedChildrenHashes) ==
  IF attributes # << >>
  THEN computeStringHash(canonicalize(attributes[1]))
  ELSE computeStringHash(Join(sortedChildrenHashes))

\* returns [err, node, lookup, warnings]; err is "" when visit returns and
\* node is then << the node >>
visit(cs, path, acc, throwing) ==
  LET kids == ChildrenOf(cs, path)
      done == visitChildren(cs, kids,
                [nodes |-> << >>, lookup |-> acc.lookup, warnings |-> acc.warnings],
                throwing)
      failed(err) == [err |-> err, node |-> << >>, lookup |-> done.lookup,
                      warnings |-> done.warnings]
  IN IF path \in throwing THEN failed("inspect")
     ELSE IF ~ChildrenRecorded(done.lookup, kids) THEN failed("TypeError")
     ELSE LET attributes == synthAttributes(cs, path)
              node == [id |-> IF NodeId(path) = "" THEN "App" ELSE NodeId(path),
                       path |-> path,
                       parent |-> ParentRef(path),
                       children |-> done.nodes,
                       attributes |-> attributes,
                       hash |-> NodeHash(attributes,
                                  SortStrings(ChildrenHashes(done.lookup, kids)))]
          IN [err |-> "", node |-> << node >>, lookup |-> Assign(done.lookup, node),
              warnings |-> done.warnings]

\* ------------------------------------------------------------------------
\* The differ.  A Record<string, string> from hash to path is the sequence
\* of its entries [hash, path] in property order.
\* ------------------------------------------------------------------------

HasKey(rec, hash) == \E i \in 1..Len(rec) : rec[i].hash = hash

\* result[hash] = path
Put(rec, hash, path) ==
  IF HasKey(rec, hash)
  THEN [i \in 1..Len(rec) |->
          IF rec[i].hash = hash THEN [hash |-> hash, path |-> path] ELSE rec[i]]
  ELSE Append(rec, [hash |-> hash, path |-> path])

\* Object.values(rec)
ObjectValues(rec) == {rec[i].path : i \in 1..Len(rec)}

RECURSIVE recur(_, _)
RECURSIVE recurAll(_, _)

\* Object.values(n.children).forEach(recur)
recurAll(nodes, rec) ==
  IF nodes = << >> THEN rec ELSE recurAll(Tail(nodes), recur(Head(nodes), rec))

recur(n, rec) ==
  IF n.children = << >> THEN Put(rec, n.hash, n.path) ELSE recurAll(n.children, rec)

\* the map from hash to path of the leaves of a tree
foo(node) == recur(node, << >>)

\* mutant of treeDifference: an entry is dropped when its hash is a key of m2
treeDifferenceOnHash(t1, t2) ==
  LET m1 == foo(t1)
      m2 == foo(t2)
      Kept(e) == ~HasKey(m2, e.hash)
  IN SelectSeq(m1, Kept)

\* mutant of treeDifference: the hash, not the path, is looked up in the values
treeDifferenceHashInValues(t1, t2) ==
  LET m1 == foo(t1)
      m2 == foo(t2)
      Kept(e) == e.hash \notin ObjectValues(m2)
  IN SelectSeq(m1, Kept)

treeDifference(t1, t2) ==
  LET m1 == foo(t1)
      m2 == foo(t2)
      Kept(e) == e.path \notin ObjectValues(m2)
  IN SelectSeq(m1, Kept)

\* ------------------------------------------------------------------------
\* tree.json: JSON.stringify with the replacer that drops every property
\* whose key is 'parent', read back with readJSONSync
\* ------------------------------------------------------------------------

RECURSIVE stringifyValue(_)
RECURSIVE stringifyPairs(_)
RECURSIVE stringifyValues(_)
RECURSIVE stringifyNode(_)
RECURSIVE stringifyNodes(_)

stringifyPairs(pairs) ==
  IF pairs = << >> THEN << >>
  ELSE (IF Head(pairs).key = "parent" THEN << >>
        ELSE << Pair(Head(pairs).key, stringifyValue(Head(pairs).value)) >>)
       \o stringifyPairs(Tail(pairs))

stringifyValues(elems) ==
  IF elems = << >> THEN << >>
  ELSE << stringifyValue(Head(elems)) >> \o stringifyValues(Tail(elems))

stringifyValue(value) ==
  IF value.t = "obj" THEN Obj(stringifyPairs(value.kids))
  ELSE IF value.t = "arr" THEN Arr(stringifyValues(value.kids))
  ELSE IF value.t = "date" THEN Str(value.s)           \* Date.prototype.toJSON
  ELSE value

\* the children map: its keys are the ids of the children
stringifyNodes(nodes) ==
  IF nodes = << >> THEN << >>
  ELSE (IF Head(nodes).id = "parent" THEN << >> ELSE << stringifyNode(Head(nodes)) >>)
       \o stringifyNodes(Tail(nodes))

\* mutant of stringifyNode: the replacer lets the key 'parent' through
stringifyNodeKeepsParent(n) ==
  [id |-> n.id,
   path |-> n.path,
   parent |-> n.parent,
   children |-> stringifyNodes(n.children),
   attributes |-> IF n.attributes = << >> THEN << >>
                  ELSE << stringifyPairs(n.attributes[1]) >>,
   hash |-> n.hash]

stringifyNode(n) ==
  [id |-> n.id,
   path |-> n.path,
   parent |-> << >>,
   children |-> stringifyNodes(n.children),
   attributes |-> IF n.attributes = << >> THEN << >>
                  ELSE << stringifyPairs(n.attributes[1]) >>,
   hash |-> n.hash]

\* the document written to tree.json
stringify(tree) == [version |-> tree.version, tree |-> stringifyNode(tree.tree)]

\* ------------------------------------------------------------------------
\* Operations
\* ------------------------------------------------------------------------

NoDiff == [removed |-> << >>, added |-> << >>]

\* the constructs inspect() can throw for
Inspectable(cs) == {cs[i].path : i \in {j \in 1..Len(cs) : cs[j].attrs # NoInspect}}

\* mutant of _synthesizeTree: tree.json is written before it is read
_synthesizeTreeWriteFirst(throwing) ==
  LET r == visit(constructs, RootPath, [lookup |-> << >>, warnings |-> << >>], throwing)
  IN /\ error = ""
     /\ warnings' = r.warnings
     /\ thrown' = throwing
     /\ error' = r.err
     /\ UNCHANGED << constructs, edits, canonVars, branchVars, dynamodbVars >>
     /\ IF r.err # ""
        THEN /\ result' = << >>
             /\ oldTree' = << >>
             /\ UNCHANGED << file, _tree >>
        ELSE LET tree == [version |-> "tree-0.1", tree |-> r.node[1]]
             IN /\ _tree' = << r.lookup >>
                /\ file' = << stringify(tree) >>
                /\ oldTree' = << stringify(tree).tree >>
                /\ result' = << [removed |-> treeDifference(stringify(tree).tree, tree.tree),
                                 added |-> treeDifference(tree.tree, stringify(tree).tree)] >>

\* one synthesis pass; throwing: the constructs whose inspect() throws in it.
\* An error the pass throws goes to the caller of the synthesis, which ends.
_synthesizeTree(throwing) ==
  LET r == visit(constructs, RootPath, [lookup |-> << >>, warnings |-> << >>], throwing)
  IN /\ error = ""
     /\ warnings' = r.warnings
     /\ thrown' = throwing
     /\ error' = r.err
     /\ UNCHANGED << constructs, edits, canonVars, branchVars, dynamodbVars >>
     /\ IF r.err # ""
        THEN /\ result' = << >>
             /\ oldTree' = << >>
             /\ UNCHANGED << file, _tree >>
        ELSE LET tree == [version |-> "tree-0.1", tree |-> r.node[1]]
             IN /\ _tree' = << r.lookup >>
                /\ oldTree' = IF file # << >> THEN << file[1].tree >> ELSE << >>
                /\ result' = IF file # << >>
                             THEN << [removed |-> treeDifference(file[1].tree, tree.tree),
                                      added |-> treeDifference(tree.tree, file[1].tree)] >>
                             ELSE << NoDiff >>
                /\ file' = << stringify(tree) >>

Synthesize == \E throwing \in SUBSET Inspectable(constructs) : _synthesizeTree(throwing)

\* The application changes its construct structure between two passes; the
\* report and the locals of the pass before are gone by then.
Edit(cs) ==
  /\ error = ""
  /\ edits < MaxEdits
  /\ constructs' = cs
  /\ edits' = edits + 1
  /\ result' = << >>
  /\ oldTree' = << >>
  /\ UNCHANGED << file, _tree, warnings, thrown, error, canonVars, branchVars, dynamodbVars >>

\* new Construct(scope, id): scope is the root or a construct of the structure
AddConstruct ==
  \E path \in Universe \ Paths(constructs), attrs \in AttrChoices :
    /\ ParentPath(path) \in {RootPath} \cup Paths(constructs)
    /\ Edit(Append(constructs, [path |-> path, attrs |-> attrs]))

IsPrefix(p, q) == Len(p) <= Len(q) /\ SubSeq(q, 1, Len(p)) = p

\* node.tryRemoveChild(id): the construct goes with everything below it
RemoveConstruct ==
  \E path \in Paths(constructs) \ {TreePath} :
    LET Stays(c) == ~IsPrefix(path, c.path)
    IN Edit(SelectSeq(constructs, Stays))

\* the state inspect() reports of a construct changes
SetAttributes ==
  \E path \in Inspectable(constructs), attrs \in AttrChoices \ {NoInspect} :
    /\ Construct(constructs, path).attrs # attrs
    /\ Edit([i \in 1..Len(constructs) |->
               IF constructs[i].path = path
               THEN [constructs[i] EXCEPT !.attrs = attrs]
               ELSE constructs[i]])

\* new TreeMetadata(app): the construct 'Tree' is a child of the root
InitTree ==
  /\ constructs = << [path |-> TreePath, attrs |-> NoInspect] >>
  /\ edits = 0
  /\ file = << >>
  /\ _tree = << >>
  /\ oldTree = << >>
  /\ result = << >>
  /\ warnings = << >>
  /\ thrown = {}
  /\ error = ""

\* nothing has been handed to canonicalize
InitNoCanon ==
  /\ objA = << >>
  /\ objB = << >>
  /\ textA = << >>
  /\ textB = << >>

\* _getNodeBranch has not been called
InitNoBranch ==
  /\ branchPath = << >>
  /\ branch = << >>
  /\ branchError = ""

\* nothing of aws-dynamodb has been used
InitNoImport ==
  /\ importAttrs = << >>
  /\ imported = << >>
  /\ importError = ""

InitNoCapacity ==
  /\ autoscaledOptions = << >>
  /\ capacity = << >>
  /\ capacityError = ""

InitNoTable ==
  /\ table = << >>
  /\ tableError = ""
  /\ replicas = << >>

InitNoDynamodb == InitNoImport /\ InitNoCapacity /\ InitNoTable

Init ==
  /\ InitTree
  /\ InitNoCanon
  /\ InitNoBranch
  /\ InitNoDynamodb

Next == Synthesize \/ AddConstruct \/ RemoveConstruct \/ SetAttributes

Spec == Init /\ [][Next]_vars

\* ------------------------------------------------------------------------
\* canonicalize on its own: two mappings are drawn, then canonicalized
\* ------------------------------------------------------------------------

Keys == {"a", "b"}

\* the values a key of a drawn mapping can hold
ValueChoices ==
  { Num("1"), Str("s"), Null, Obj(<< >>),
    Arr(<< Num("1"), Str("s") >>), Arr(<< Str("s"), Num("1") >>),
    Obj(<< Pair("a", Num("1")), Pair("b", Str("s")) >>),
    Obj(<< Pair("b", Str("s")), Pair("a", Num("1")) >>) }

\* the mappings over Keys, in every insertion order
Mappings ==
  { << >> }
    \cup { << Pair(k, v) >> : k \in Keys, v \in ValueChoices }
    \cup UNION { { << Pair(k1, v1), Pair(k2, v2) >> :
                      k2 \in Keys \ {k1}, v1 \in ValueChoices, v2 \in ValueChoices } :
                    k1 \in Keys }

InitCanon ==
  /\ InitTree
  /\ InitNoBranch
  /\ InitNoDynamodb
  /\ objA \in Mappings
  /\ objB \in Mappings
  /\ textA = << >>
  /\ textB = << >>

Canonicalize ==
  /\ textA = << >>
  /\ textA' = << canonicalize(objA) >>
  /\ textB' = << canonicalize(objB) >>
  /\ UNCHANGED << treeVars, objA, objB, branchVars, dynamodbVars >>

NextCanon == Canonicalize

SpecCanon == InitCanon /\ [][NextCanon]_vars

\* ------------------------------------------------------------------------
\* Branch extraction: an application has declared its constructs, passes
\* run and _getNodeBranch is called
\* ------------------------------------------------------------------------

\* the paths of the constructs an application of this specification declares
BranchUniverse == Universe \cup { << "A", "B", "A" >>, << "A", "B", "B" >> }

\* the order in which it declares them
BranchOrder ==
  << << "A" >>, << "B" >>, << "A", "B" >>, << "A", "parent" >>,
     << "A", "B", "A" >>, << "A", "B", "B" >> >>

\* the property names every object literal inherits from Object.prototype,
\* as paths: the lookup table is created as { }
ObjectPrototype == { << "constructor" >> }

\* the value of such an inherited property: a function, which has none of
\* the fields of a Node
Inherited(path) == [inherited |-> path]

\* the structures: every construct's scope is declared before it; the
\* construct A has an inspect()
Structures ==
  { << [path |-> TreePath, attrs |-> NoInspect] >>
      \o [i \in 1..Len(SelectSeq(BranchOrder, LAMBDA q : q \in S)) |->
            LET q == SelectSeq(BranchOrder, LAMBDA r : r \in S)[i]
            IN [path |-> q,
                attrs |-> IF q = << "A" >> THEN EmptyAttributes ELSE NoInspect]] :
    S \in { T \in SUBSET BranchUniverse :
              \A q \in T : ParentPath(q) \in T \cup {RootPath} } }

\* this._tree[constructPath]: << >> is undefined
TreeAt(constructPath) ==
  IF HasPath(_tree[1], constructPath) THEN << Lookup(_tree[1], constructPath) >>
  ELSE IF constructPath \in ObjectPrototype THEN << Inherited(constructPath) >>
  ELSE << >>

\* node.parent: << >> is undefined
Parent(node) == IF "parent" \in DOMAIN node THEN node.parent ELSE << >>

RECURSIVE getNodeWithParents(_)
\* node is << >> (undefined) or << value >>; returns [err, node]
getNodeWithParents(node) ==
  IF _tree = << >> THEN [err |-> "Error", node |-> << >>]
  ELSE IF node = << >> THEN [err |-> "TypeError", node |-> << >>]
  ELSE IF Parent(node[1]) # << >>
  THEN LET up == getNodeWithParents(TreeAt(Parent(node[1])[1].path))
       IN IF up.err # "" THEN up
          ELSE [err |-> "", node |-> << [node[1] EXCEPT !.parent = up.node] >>]
  ELSE [err |-> "", node |-> node]

RECURSIVE renderTreeWithChildren(_, _)
\* child is << >> (not given) or << node >>
renderTreeWithChildren(node, child) ==
  IF Parent(node) # << >> THEN renderTreeWithChildren(Parent(node)[1], << node >>)
  ELSE IF child # << >> THEN [node EXCEPT !.children = << child[1] >>]
  ELSE node

\* the caller gets the error a call throws, or the node it returns
_getNodeBranch(constructPath) ==
  /\ branchPath' = << constructPath >>
  /\ UNCHANGED << treeVars, canonVars, dynamodbVars >>
  /\ IF _tree = << >>
     THEN /\ branchError' = "Error"
          /\ branch' = << >>
     ELSE LET tree == TreeAt(constructPath)
              treeWithParents == getNodeWithParents(tree)
          IN IF treeWithParents.err # ""
             THEN /\ branchError' = treeWithParents.err
                  /\ branch' = << >>
             ELSE /\ branchError' = ""
                  /\ branch' = << renderTreeWithChildren(treeWithParents.node[1], << >>) >>

\* the paths _getNodeBranch is called with
BranchPaths == {RootPath, TreePath} \cup BranchUniverse \cup ObjectPrototype

GetNodeBranch == \E constructPath \in BranchPaths : _getNodeBranch(constructPath)

InitBranch ==
  /\ constructs \in Structures
  /\ edits = 0
  /\ file = << >>
  /\ _tree = << >>
  /\ oldTree = << >>
  /\ result = << >>
  /\ warnings = << >>
  /\ thrown = {}
  /\ error = ""
  /\ InitNoCanon
  /\ InitNoBranch
  /\ InitNoDynamodb

NextBranch == Synthesize \/ GetNodeBranch

SpecBranch == InitBranch /\ [][NextBranch]_vars

\* ------------------------------------------------------------------------
\* aws-dynamodb: Capacity.  A number that may be left out is << >> or << n >>
\* ------------------------------------------------------------------------

MAX_GSI_COUNT == 20
MAX_LSI_COUNT == 5
MAX_NON_KEY_ATTRIBUTES == 100
DEFAULT_TARGET_UTILIZATION == 70

\* a number in a condition: undefined and 0 are falsy
TruthyNumber(n) == n # << >> /\ n[1] # 0

\* new Capacity(mode, options): the checks read the fields of the object
\* under construction, which are assigned after them
Capacity(mode, options) ==
  LET this == [_units |-> << >>, _minCapacity |-> << >>, _maxCapacity |-> << >>,
               _targetUtilizationPercent |-> << >>]
  IN IF /\ TruthyNumber(this._minCapacity) /\ TruthyNumber(this._maxCapacity)
        /\ this._minCapacity[1] > this._maxCapacity[1]
     THEN [err |-> "Min capacity must be less than or equal to max capacity",
           capacity |-> << >>]
     ELSE IF /\ TruthyNumber(this._targetUtilizationPercent)
             /\ \/ this._targetUtilizationPercent[1] < 20
                \/ this._targetUtilizationPercent[1] > 90
     THEN [err |-> "Target utilization percent must be between 20 and 90, inclusive",
           capacity |-> << >>]
     ELSE [err |-> "",
           capacity |-> << [mode |-> mode,
                            _units |-> options.units,
                            _minCapacity |-> options.minCapacity,
                            _maxCapacity |-> options.maxCapacity,
                            _targetUtilizationPercent |->
                              options.targetUtilizationPercent] >>]

\* Capacity.fixed(units)
fixed(units) ==
  Capacity("FIXED", [units |-> << units >>, minCapacity |-> << >>,
                     maxCapacity |-> << >>, targetUtilizationPercent |-> << >>])

\* Capacity.autoscaled(options)
autoscaled(options) ==
  Capacity("AUTOSCALED", [units |-> << >>, minCapacity |-> options.minCapacity,
                          maxCapacity |-> options.maxCapacity,
                          targetUtilizationPercent |-> options.targetUtilizationPercent])

\* the getter targetUtilizationPercent of an autoscaled Capacity
targetUtilizationPercent(c) ==
  IF c._targetUtilizationPercent # << >> THEN c._targetUtilizationPercent[1]
  ELSE DEFAULT_TARGET_UTILIZATION

\* the numbers a capacity is given in the model
CapacityChoices == {0, 1, 2, 5}

\* the target utilizations: left out, and both sides of each limit
TargetChoices == { << >>, << 19 >>, << 20 >>, << 90 >>, << 91 >> }

OptionsChoices ==
  [minCapacity : {<< n >> : n \in CapacityChoices},
   maxCapacity : {<< n >> : n \in CapacityChoices},
   targetUtilizationPercent : TargetChoices]

CapacityAutoscaled ==
  LET made == autoscaled(autoscaledOptions[1])
  IN /\ capacity' = made.capacity
     /\ capacityError' = made.err
     /\ UNCHANGED << treeVars, canonVars, branchVars, importVars, tableVars,
                     autoscaledOptions >>

CapacityFixed ==
  \E units \in CapacityChoices :
    LET made == fixed(units)
    IN /\ capacity' = made.capacity
       /\ capacityError' = made.err
       /\ UNCHANGED << treeVars, canonVars, branchVars, importVars, tableVars,
                       autoscaledOptions >>

InitCapacity ==
  /\ InitTree
  /\ InitNoCanon
  /\ InitNoBranch
  /\ InitNoImport
  /\ InitNoTable
  /\ autoscaledOptions \in {<< o >> : o \in OptionsChoices}
  /\ capacity = << >>
  /\ capacityError = ""

NextCapacity == CapacityAutoscaled \/ CapacityFixed

SpecCapacity == InitCapacity /\ [][NextCapacity]_vars

\* ------------------------------------------------------------------------
\* aws-dynamodb: GlobalTable.fromTableAttributes.  An ARN is the record of
\* its components; a string that may be left out is << >> or << string >>
\* ------------------------------------------------------------------------

\* the ARN of the table with a name; << >> for an ARN without resource name
TableArn(resourceName) ==
  [service |-> "dynamodb", resource |-> "table", resourceName |-> resourceName]

\* a string in a condition: undefined and '' are falsy
TruthyString(str) == str # << >> /\ str[1] # ""

\* returns [err, table]; table is << >> or << the Import >>
fromTableAttributes(a) ==
  IF a.tableArn = << >>
  THEN IF ~TruthyString(a.tableName)
       THEN [err |-> "At least one of tableArn or tableName must be provided",
             table |-> << >>]
       ELSE [err |-> "",
             table |-> << [tableArn |-> TableArn(a.tableName),
                           tableName |-> a.tableName[1],
                           tableId |-> a.tableId,
                           tableStreamArn |-> a.tableStreamArn] >>]
  ELSE IF a.tableArn # << >>
       THEN [err |-> "Only one of tableArn or tableName can be provided, but not both",
             table |-> << >>]
       ELSE LET resourceName == a.tableArn[1].resourceName
            IN IF resourceName = << >>
               THEN [err |-> "Invalid table ARN", table |-> << >>]
               ELSE [err |-> "",
                     table |-> << [tableArn |-> a.tableArn[1],
                                   tableName |-> resourceName[1],
                                   tableId |-> a.tableId,
                                   tableStreamArn |-> a.tableStreamArn] >>]

fromTableName(tableName) ==
  fromTableAttributes([tableArn |-> << >>, tableName |-> << tableName >>,
                       tableId |-> << >>, tableStreamArn |-> << >>])

fromTableArn(tableArn) ==
  fromTableAttributes([tableArn |-> << tableArn >>, tableName |-> << >>,
                       tableId |-> << >>, tableStreamArn |-> << >>])

\* the attributes handed in
AttributesChoices ==
  [tableArn : { << >>, << TableArn(<< "T1" >>) >>, << TableArn(<< "T2" >>) >>,
                << TableArn(<< >>) >> },
   tableName : { << >>, << "" >>, << "T1" >>, << "T2" >> },
   tableId : { << >>, << "id" >> },
   tableStreamArn : { << >>, << "stream" >> }]

Import(made) ==
  /\ imported' = made.table
  /\ importError' = made.err
  /\ UNCHANGED << treeVars, canonVars, branchVars, capacityVars, tableVars,
                  importAttrs >>

FromTableAttributes ==
  /\ importAttrs # << >>
  /\ Import(fromTableAttributes(importAttrs[1]))

\* only a name is at hand
FromTableName ==
  /\ importAttrs[1].tableName # << >>
  /\ importAttrs[1].tableArn = << >>
  /\ importAttrs[1].tableId = << >>
  /\ importAttrs[1].tableStreamArn = << >>
  /\ Import(fromTableName(importAttrs[1].tableName[1]))

\* only an ARN is at hand
FromTableArn ==
  /\ importAttrs[1].tableArn # << >>
  /\ importAttrs[1].tableName = << >>
  /\ importAttrs[1].tableId = << >>
  /\ importAttrs[1].tableStreamArn = << >>
  /\ Import(fromTableArn(importAttrs[1].tableArn[1]))

InitImport ==
  /\ InitTree
  /\ InitNoCanon
  /\ InitNoBranch
  /\ InitNoCapacity
  /\ InitNoTable
  /\ importAttrs \in {<< a >> : a \in AttributesChoices}
  /\ imported = << >>
  /\ importError = ""

NextImport == FromTableAttributes \/ FromTableName \/ FromTableArn

SpecImport == InitImport /\ [][NextImport]_vars

\* ------------------------------------------------------------------------
\* aws-dynamodb: GlobalTable.  `this` is the record of the fields of the
\* table; a Map is the sequence of its entries in insertion order.  A
\* method returns [err, this] (and value, where it returns one): what it
\* changed before it threw stays changed.
\* ------------------------------------------------------------------------

HASH_KEY_TYPE == "HASH"
RANGE_KEY_TYPE == "RANGE"
PAY_PER_REQUEST == "PAY_PER_REQUEST"
PROVISIONED == "PROVISIONED"
INCLUDE == "INCLUDE"
ALL == "ALL"
CUSTOMER_MANAGED == "CUSTOMER_MANAGED"

\* the region of the stack, and a region that is an unresolved token
Region == "us-east-1"
TokenRegion == "${Token[AWS.Region.4]}"

\* Token.isUnresolved
isUnresolved(str) == str = TokenRegion

\* Map.prototype.has on a map keyed by index name
HasIndex(map, indexName) == \E i \in 1..Len(map) : map[i].indexName = indexName

\* Map.prototype.set on a map keyed by a field of its values
SetEntry(map, entry, Same(_, _)) ==
  IF \E i \in 1..Len(map) : Same(map[i], entry)
  THEN [i \in 1..Len(map) |-> IF Same(map[i], entry) THEN entry ELSE map[i]]
  ELSE Append(map, entry)

SameIndexName(a, b) == a.indexName = b.indexName

SameRegion(a, b) == a.region = b.region

Ok(this) == [err |-> "", this |-> this]

Thrown(msg, this) == [err |-> msg, this |-> this]

\* a statement and the statements after it: what the statement returned is
\* computed once
Strict(returned, Rest(_)) == CHOOSE after \in { Rest(r) : r \in { returned } } : TRUE

\* a call and the statements after it, which run when it did not throw
AndThen(called, Rest(_)) ==
  Strict(called, LAMBDA done : IF done.err # "" THEN done ELSE Rest(done.this))

addAttributeDefinition(this, attribute) ==
  LET Named(def) == def.attributeName = attribute.name
      existingAttributeDef == SelectSeq(this.attributeDefinitions, Named)
  IN IF /\ existingAttributeDef # << >>
        /\ existingAttributeDef[1].attributeType # attribute.type
     THEN Thrown("Unable to specify the attribute because it was already defined with another type",
                 this)
     ELSE IF existingAttributeDef = << >>
     THEN Ok([this EXCEPT !.attributeDefinitions =
                Append(@, [attributeName |-> attribute.name,
                           attributeType |-> attribute.type])])
     ELSE Ok(this)

addKey(this, key, keyType) ==
  LET defined == addAttributeDefinition(this, key)
  IN IF defined.err # "" THEN defined
     ELSE Ok([defined.this EXCEPT !.keySchema =
                Append(@, [attributeName |-> key.name, keyType |-> keyType])])

\* sortKey is << >> or << attribute >>; returns [err, this, value]
configureIndexKeySchema(this, partitionKey, sortKey) ==
  LET first == addAttributeDefinition(this, partitionKey)
      hash == << [attributeName |-> partitionKey.name, keyType |-> HASH_KEY_TYPE] >>
  IN IF first.err # "" THEN [err |-> first.err, this |-> first.this, value |-> << >>]
     ELSE IF sortKey = << >> THEN [err |-> "", this |-> first.this, value |-> hash]
     ELSE LET second == addAttributeDefinition(first.this, sortKey[1])
          IN IF second.err # ""
             THEN [err |-> second.err, this |-> second.this, value |-> << >>]
             ELSE [err |-> "", this |-> second.this,
                   value |-> Append(hash, [attributeName |-> sortKey[1].name,
                                           keyType |-> RANGE_KEY_TYPE])]

\* props.projectionType is << >> or << type >>, props.nonKeyAttributes is
\* << >> or << sequence of names >>; returns [err, this, value]
configureIndexProjection(this, props) ==
  IF props.projectionType = << INCLUDE >> /\ props.nonKeyAttributes = << >>
  THEN [err |-> "Non-key attributes should be specified when using INCLUDE projection type",
        this |-> this, value |-> << >>]
  ELSE IF props.projectionType # << INCLUDE >> /\ props.nonKeyAttributes # << >>
  THEN [err |-> "Non-key attributes should not be specified when not using INCLUDE projection type",
        this |-> this, value |-> << >>]
  ELSE LET added == IF props.nonKeyAttributes = << >> THEN this
                    ELSE [this EXCEPT !.nonKeyAttributes =
                            @ \cup {props.nonKeyAttributes[1][i] :
                                      i \in 1..Len(props.nonKeyAttributes[1])}]
       IN IF Cardinality(added.nonKeyAttributes) > MAX_NON_KEY_ATTRIBUTES
          THEN [err |-> "The maximum number of nonKeyAttributes across all secondary indexes is 100",
                this |-> added, value |-> << >>]
          ELSE [err |-> "", this |-> added,
                value |-> [projectionType |-> IF props.projectionType = << >> THEN ALL
                                              ELSE props.projectionType[1],
                           nonKeyAttributes |-> props.nonKeyAttributes]]

\* a Capacity is made by Capacity.fixed or Capacity.autoscaled, so the
\* getters read here do not throw
configureReadProvisioning(readCapacity) ==
  IF readCapacity.mode = "FIXED"
  THEN [readCapacityUnits |-> readCapacity._units[1]]
  ELSE [readCapacityAutoScalingSettings |->
          [minCapacity |-> readCapacity._minCapacity[1],
           maxCapacity |-> readCapacity._maxCapacity[1],
           targetValue |-> targetUtilizationPercent(readCapacity)]]

\* returns [err, value]
configureWriteProvisioning(writeCapacity) ==
  IF writeCapacity.mode = "FIXED"
  THEN [err |-> "Write capacity must be configured using AUTOSCALED capacity mode",
        value |-> << >>]
  ELSE [err |-> "",
        value |-> << [writeCapacityAutoScalingSettings |->
                        [minCapacity |-> writeCapacity._minCapacity[1],
                         maxCapacity |-> writeCapacity._maxCapacity[1],
                         targetValue |-> targetUtilizationPercent(writeCapacity)]] >>]

\* a validation that looks at the local indexes only
validateIndexNameLocalOnly(this, indexName) ==
  IF HasIndex(this._localSecondaryIndexes, indexName)
  THEN "Duplicate secondary index name is not allowed"
  ELSE ""

\* the error validateIndexName throws, "" when it returns
validateIndexName(this, indexName) ==
  IF \/ HasIndex(this._localSecondaryIndexes, indexName)
     \/ HasIndex(this._globalSecondaryIndexes, indexName)
  THEN "Duplicate secondary index name is not allowed"
  ELSE ""

\* returns [err, this, value]
configureLocalSecondaryIndex(this, props) ==
  LET schema == configureIndexKeySchema(this, this.partitionKey, props.sortKey)
  IN IF schema.err # "" THEN schema
     ELSE LET projection == configureIndexProjection(schema.this, props)
          IN IF projection.err # "" THEN projection
             ELSE [err |-> "", this |-> projection.this,
                   value |-> [indexName |-> props.indexName,
                              keySchema |-> schema.value,
                              projection |-> projection.value]]

\* a local index added with the limit tested one index too late
addLocalSecondaryIndexLateLimit(this, props) ==
  IF validateIndexName(this, props.indexName) # ""
  THEN Thrown(validateIndexName(this, props.indexName), this)
  ELSE IF Len(this._localSecondaryIndexes) > MAX_LSI_COUNT
  THEN Thrown("A table can only support a maximum of 5 local secondary indexes", this)
  ELSE LET index == configureLocalSecondaryIndex(this, props)
       IN IF index.err # "" THEN Thrown(index.err, index.this)
          ELSE Ok([index.this EXCEPT !._localSecondaryIndexes =
                     SetEntry(@, index.value, SameIndexName)])

addLocalSecondaryIndex(this, props) ==
  IF validateIndexName(this, props.indexName) # ""
  THEN Thrown(validateIndexName(this, props.indexName), this)
  ELSE IF Len(this._localSecondaryIndexes) = MAX_LSI_COUNT
  THEN Thrown("A table can only support a maximum of 5 local secondary indexes", this)
  ELSE LET index == configureLocalSecondaryIndex(this, props)
       IN IF index.err # "" THEN Thrown(index.err, index.this)
          ELSE Ok([index.this EXCEPT !._localSecondaryIndexes =
                     SetEntry(@, index.value, SameIndexName)])

\* returns [err, this, value]
configureGlobalSecondaryIndex(this, props) ==
  LET schema == configureIndexKeySchema(this, props.partitionKey, props.sortKey)
  IN IF schema.err # "" THEN schema
     ELSE LET projection == configureIndexProjection(schema.this, props)
          IN IF projection.err # "" THEN projection
             ELSE LET recorded ==
                        IF props.readCapacity = << >> THEN projection.this
                        ELSE [projection.this EXCEPT !.globalSecondaryIndexReadCapacitys =
                                SetEntry(@, [indexName |-> props.indexName,
                                             capacity |-> props.readCapacity[1]],
                                         SameIndexName)]
                      write == IF props.writeCapacity = << >>
                               THEN [err |-> "", value |-> this.writeProvisioning]
                               ELSE configureWriteProvisioning(props.writeCapacity[1])
                  IN IF write.err # ""
                     THEN [err |-> write.err, this |-> recorded, value |-> << >>]
                     ELSE [err |-> "", this |-> recorded,
                           value |-> [indexName |-> props.indexName,
                                      keySchema |-> schema.value,
                                      projection |-> projection.value,
                                      writeProvisionedThroughputSettings |-> write.value]]

addGlobalSecondaryIndex(this, props) ==
  IF validateIndexName(this, props.indexName) # ""
  THEN Thrown(validateIndexName(this, props.indexName), this)
  ELSE IF Len(this._globalSecondaryIndexes) = MAX_GSI_COUNT
  THEN Thrown("A table can only support a maximum of 20 global secondary indexes", this)
  ELSE IF /\ this.billingMode = PAY_PER_REQUEST
          /\ (props.readCapacity # << >> \/ props.writeCapacity # << >>)
  THEN Thrown("You cannot configure read or write capacity on a global secondary index if the billing mode is PAY_PER_REQUEST",
              this)
  ELSE IF this.billingMode = PROVISIONED /\ props.readCapacity = << >>
  THEN Thrown("You must specify 'readCapacity' on a global secondary index when the billing mode is PROVISIONED",
              this)
  ELSE LET index == configureGlobalSecondaryIndex(this, props)
       IN IF index.err # "" THEN Thrown(index.err, index.this)
          ELSE Ok([index.this EXCEPT !._globalSecondaryIndexes =
                     SetEntry(@, index.value, SameIndexName)])

addReplica(this, props) ==
  IF isUnresolved(props.region)
  THEN Thrown("Replica table region must not be a token", this)
  ELSE IF \E i \in 1..Len(this._replicaTables) :
            this._replicaTables[i].region = props.region
  THEN Thrown("Duplicate replica region is not allowed", this)
  ELSE Ok([this EXCEPT !._replicaTables = SetEntry(@, props, SameRegion)])

\* a boolean that may be left out is << >>, << TRUE >> or << FALSE >>;
\* a ?? b
Coalesce(a, b) == IF a # << >> THEN a ELSE b

\* Map.prototype.get on the read capacities: << >> or << capacity >>
ReadCapacityOf(this, indexName) ==
  LET Named(e) == e.indexName = indexName
      found == SelectSeq(this.globalSecondaryIndexReadCapacitys, Named)
  IN IF found = << >> THEN << >> ELSE << found[1].capacity >>

\* readCapacity ? this.configureReadProvisioning(readCapacity) : undefined
ReadSettings(readCapacity) ==
  IF readCapacity = << >> THEN << >>
  ELSE << configureReadProvisioning(readCapacity[1]) >>

RECURSIVE ConfigureOptions(_, _, _)
\* the loop over Object.keys(options): entries is what is left of the
\* options, done the specifications pushed so far; returns [err, value]
ConfigureOptions(this, entries, done) ==
  IF entries = << >> THEN [err |-> "", value |-> done]
  ELSE LET replicaGsiOptions == Head(entries)
           indexName == replicaGsiOptions.indexName
       IN IF ~HasIndex(this._globalSecondaryIndexes, indexName)
          THEN [err |-> "Cannot configure global secondary index because it is not defined on the global table",
                value |-> << >>]
          ELSE IF /\ this.billingMode = PAY_PER_REQUEST
                  /\ replicaGsiOptions.readCapacity # << >>
          THEN [err |-> "Cannot configure 'readCapacity' for global secondary index because billing mode is PAY_PER_REQUEST",
                value |-> << >>]
          ELSE LET contributorInsights ==
                     Coalesce(replicaGsiOptions.contributorInsights,
                              this.tableOptions.contributorInsights)
                   readCapacity ==
                     Coalesce(replicaGsiOptions.readCapacity,
                              ReadCapacityOf(this, indexName))
               IN ConfigureOptions(this, Tail(entries),
                    Append(done,
                      [indexName |-> indexName,
                       readProvisionedThroughputSettings |-> ReadSettings(readCapacity),
                       contributorInsightsSpecification |->
                         IF contributorInsights # << >>
                         THEN << [enabled |-> contributorInsights[1]] >>
                         ELSE << >>]))

\* a replica that lists the indexes of its options and no others
configureReplicaGlobalSecondaryIndexesOptionsOnly(this, options) ==
  Strict(IF options = << >> THEN [err |-> "", value |-> << >>]
         ELSE ConfigureOptions(this, options[1], << >>),
         LAMBDA configured :
           IF configured.err # "" THEN configured
           ELSE [err |-> "",
                 value |-> IF Len(configured.value) > 0
                           THEN << configured.value >> ELSE << >>])

\* options is << >> or << the entries of globalSecondaryIndexOptions >>;
\* returns [err, value], value << >> (undefined) or << the list >>
configureReplicaGlobalSecondaryIndexes(this, options) ==
  LET configured == IF options = << >> THEN [err |-> "", value |-> << >>]
                    ELSE ConfigureOptions(this, options[1], << >>)
      processedGlobalSecondaryIndexes ==
        {configured.value[i].indexName : i \in 1..Len(configured.value)}
      NotProcessed(gsi) == gsi.indexName \notin processedGlobalSecondaryIndexes
      others == SelectSeq(this._globalSecondaryIndexes, NotProcessed)
      globalSecondaryIndexes ==
        IF this.billingMode = PROVISIONED
        THEN configured.value \o
             [i \in 1..Len(others) |->
                [indexName |-> others[i].indexName,
                 readProvisionedThroughputSettings |->
                   ReadSettings(ReadCapacityOf(this, others[i].indexName)),
                 contributorInsightsSpecification |->
                   IF this.tableOptions.contributorInsights = << TRUE >>
                   THEN << [enabled |-> TRUE] >>
                   ELSE << >>]]
        ELSE configured.value
  IN IF configured.err # "" THEN configured
     ELSE [err |-> "",
           value |-> IF Len(globalSecondaryIndexes) > 0
                     THEN << globalSecondaryIndexes >> ELSE << >>]

\* Object.prototype.hasOwnProperty on replicaKeyArns
HasKeyArn(replicaKeyArns, region) ==
  \E i \in 1..Len(replicaKeyArns) : replicaKeyArns[i].region = region

\* a specification that gives every replica the key of the table
configureReplicaSseSpecificationTableKey(this, region) ==
  IF this.encryption = << >> \/ this.encryption[1].type # CUSTOMER_MANAGED
  THEN [err |-> "", value |-> << >>]
  ELSE [err |-> "", value |-> << [kmsMasterKeyId |-> this.encryption[1].tableKey] >>]

\* returns [err, value], value << >> (undefined) or << specification >>
configureReplicaSseSpecification(this, region) ==
  IF this.encryption = << >> \/ this.encryption[1].type # CUSTOMER_MANAGED
  THEN [err |-> "", value |-> << >>]
  ELSE IF region = this.region
  THEN [err |-> "", value |-> << [kmsMasterKeyId |-> this.encryption[1].tableKey] >>]
  ELSE IF ~HasKeyArn(this.encryption[1].replicaKeyArns, region)
  THEN [err |-> "You must specify a KMS key ARN for each replica table when encryption type is CUSTOMER_MANAGED",
        value |-> << >>]
  ELSE LET ForRegion(e) == e.region = region
       IN [err |-> "",
           value |-> << [kmsMasterKeyId |->
                           SelectSeq(this.encryption[1].replicaKeyArns, ForRegion)[1].arn] >>]

\* returns [err, value]
configureReplicaTable(this, props) ==
  LET globalSecondaryIndexes ==
        configureReplicaGlobalSecondaryIndexes(this, props.globalSecondaryIndexOptions)
      pointInTimeRecovery ==
        Coalesce(props.pointInTimeRecovery, this.tableOptions.pointInTimeRecovery)
      contributorInsights ==
        Coalesce(props.contributorInsights, this.tableOptions.contributorInsights)
      readProvisionedThroughputSettings ==
        IF props.readCapacity # << >>
        THEN << configureReadProvisioning(props.readCapacity[1]) >>
        ELSE this.readProvisioning
      sseSpecification == configureReplicaSseSpecification(this, props.region)
  IN IF globalSecondaryIndexes.err # ""
     THEN [err |-> globalSecondaryIndexes.err, value |-> << >>]
     ELSE IF sseSpecification.err # ""
     THEN [err |-> sseSpecification.err, value |-> << >>]
     ELSE [err |-> "",
           value |-> << [region |-> props.region,
                         readProvisionedThroughputSettings |->
                           readProvisionedThroughputSettings,
                         globalSecondaryIndexes |-> globalSecondaryIndexes.value,
                         deletionProtectionEnabled |->
                           Coalesce(props.deletionProtection,
                                    this.tableOptions.deletionProtection),
                         tableClass |->
                           Coalesce(props.tableClass, this.tableOptions.tableClass),
                         sseSpecification |-> sseSpecification.value,
                         kinesisStreamSpecification |->
                           IF props.kinesisStream # << >>
                           THEN << [streamArn |-> props.kinesisStream[1]] >>
                           ELSE << >>,
                         contributorInsightsSpecification |->
                           IF contributorInsights # << >>
                           THEN << [enabled |-> contributorInsights[1]] >>
                           ELSE << >>,
                         pointInTimeRecoverySpecification |->
                           IF pointInTimeRecovery # << >>
                           THEN << [pointInTimeRecoveryEnabled |->
                                      pointInTimeRecovery[1]] >>
                           ELSE << >>] >>]

\* the properties of a replica of which only the region is given
ReplicaOf(region) ==
  [region |-> region, readCapacity |-> << >>,
   globalSecondaryIndexOptions |-> << >>, contributorInsights |-> << >>,
   pointInTimeRecovery |-> << >>, deletionProtection |-> << >>,
   tableClass |-> << >>, kinesisStream |-> << >>]

RECURSIVE ConfigureReplicas(_, _, _)
\* the loop that pushes a specification for every replica; returns
\* [err, value]
ConfigureReplicas(this, tables, done) ==
  IF tables = << >> THEN [err |-> "", value |-> done]
  ELSE LET replicaTable == configureReplicaTable(this, Head(tables))
       IN IF replicaTable.err # "" THEN replicaTable
          ELSE ConfigureReplicas(this, Tail(tables), done \o replicaTable.value)

\* a list that starts with a replica of the deployment region whatever
\* replicas were added
replicaTablesAlwaysImplicit(this) ==
  ConfigureReplicas(this, << ReplicaOf(this.region) >> \o this._replicaTables, << >>)

\* the getter replicaTables; returns [err, value]
replicaTables(this) ==
  IF \A i \in 1..Len(this._replicaTables) : this._replicaTables[i].region # this.region
  THEN ConfigureReplicas(this, << ReplicaOf(this.region) >> \o this._replicaTables, << >>)
  ELSE ConfigureReplicas(this, this._replicaTables, << >>)

\* TableEncryptionV2.awsManagedKey(): no table key, no replica key ARNs
awsManagedKey == [type |-> "AWS_MANAGED"]

\* TableEncryptionV2.customerManagedKey(tableKey, replicaKeyArns): tableKey
\* is the ARN of the key, replicaKeyArns the entries [region, arn]
customerManagedKey(tableKey, replicaKeyArns) ==
  [type |-> CUSTOMER_MANAGED, tableKey |-> tableKey, replicaKeyArns |-> replicaKeyArns]

\* Billing.onDemand()
onDemand == [mode |-> PAY_PER_REQUEST, _readCapacity |-> << >>, _writeCapacity |-> << >>]

\* Billing.provisioned(props)
provisioned(props) ==
  [mode |-> PROVISIONED, _readCapacity |-> << props.readCapacity >>,
   _writeCapacity |-> << props.writeCapacity >>]

RECURSIVE AddEach(_, _, _)
\* list.forEach(props => this.add...(props)), for the global indexes, the
\* local indexes and the replicas: stops at the first call that throws
AddEach(this, list, what) ==
  IF list = << >> THEN Ok(this)
  ELSE AndThen(IF what = "global" THEN addGlobalSecondaryIndex(this, Head(list))
               ELSE IF what = "local" THEN addLocalSecondaryIndex(this, Head(list))
               ELSE addReplica(this, Head(list)),
               LAMBDA added : AddEach(added, Tail(list), what))

\* new GlobalTable(scope, id, props) in a stack of a region; returns
\* [err, this]
GlobalTable(region, props) ==
  LET write == IF props.billing # << >> /\ props.billing[1].mode = PROVISIONED
               THEN configureWriteProvisioning(props.billing[1]._writeCapacity[1])
               ELSE [err |-> "", value |-> << >>]
      this == [region |-> region,
               partitionKey |-> props.partitionKey,
               tableOptions |-> [contributorInsights |-> props.contributorInsights,
                                 deletionProtection |-> props.deletionProtection,
                                 pointInTimeRecovery |-> props.pointInTimeRecovery,
                                 tableClass |-> props.tableClass],
               billingMode |-> IF props.billing # << >> THEN props.billing[1].mode
                               ELSE PAY_PER_REQUEST,
               readProvisioning |->
                 IF props.billing # << >> /\ props.billing[1].mode = PROVISIONED
                 THEN << configureReadProvisioning(props.billing[1]._readCapacity[1]) >>
                 ELSE << >>,
               writeProvisioning |-> write.value,
               encryption |-> props.encryption,
               attributeDefinitions |-> << >>,
               keySchema |-> << >>,
               nonKeyAttributes |-> {},
               _replicaTables |-> << >>,
               _localSecondaryIndexes |-> << >>,
               _globalSecondaryIndexes |-> << >>,
               globalSecondaryIndexReadCapacitys |-> << >>]
  IN IF isUnresolved(region)
     THEN Thrown("The deployment region for a global table must not be a token", this)
     ELSE IF write.err # "" THEN Thrown(write.err, this)
     ELSE
       AndThen(addKey(this, props.partitionKey, HASH_KEY_TYPE), LAMBDA hashKey :
       AndThen(IF props.sortKey = << >> THEN Ok(hashKey)
               ELSE addKey(hashKey, props.sortKey[1], RANGE_KEY_TYPE), LAMBDA rangeKey :
       AndThen(AddEach(rangeKey, props.globalSecondaryIndexes, "global"), LAMBDA globals :
       AndThen(AddEach(globals, props.localSecondaryIndexes, "local"), LAMBDA locals :
       AddEach(locals, props.replicas, "replica")))))

\* ------------------------------------------------------------------------
\* The tables of the model and the calls made on them
\* ------------------------------------------------------------------------

OtherRegion == "eu-west-1"

\* the capacities handed in: made by the factories
FixedRead == fixed(5).capacity[1]
ReplicaRead == fixed(2).capacity[1]
AutoscaledWrite ==
  autoscaled([minCapacity |-> << 1 >>, maxCapacity |-> << 5 >>,
              targetUtilizationPercent |-> << >>]).capacity[1]

\* the index names the constructor is given, in order, and those of the
\* later calls
GsiNames ==
  << "g1", "g2", "g3", "g4", "g5", "g6", "g7", "g8", "g9", "g10", "g11",
     "g12", "g13", "g14", "g15", "g16", "g17", "g18", "g19", "g20", "g21" >>
LsiNames == << "l1", "l2", "l3", "l4", "l5", "l6" >>
CallNames == { "x", "g1" }

PartitionKey == [name |-> "pk", type |-> "S"]
IndexPartitionKey == [name |-> "gpk", type |-> "S"]

\* a global index as the constructor is given it: with a read capacity
\* when the billing is provisioned
PlainGsi(indexName, billing) ==
  [indexName |-> indexName, partitionKey |-> IndexPartitionKey, sortKey |-> << >>,
   projectionType |-> << >>, nonKeyAttributes |-> << >>,
   readCapacity |-> IF billing # << >> /\ billing[1].mode = PROVISIONED
                    THEN << FixedRead >> ELSE << >>,
   writeCapacity |-> << >>]

PlainLsi(indexName) ==
  [indexName |-> indexName, sortKey |-> << [name |-> "sk", type |-> "S"] >>,
   projectionType |-> << >>, nonKeyAttributes |-> << >>]

\* the lists of indexes a constructor is given: none, one less than the
\* maximum, the maximum, one more, and a name twice
IndexLists(billing) ==
  { [globals |-> [i \in 1..n.g |-> PlainGsi(GsiNames[i], billing)],
     locals |-> [i \in 1..n.l |-> PlainLsi(LsiNames[i])]] :
      n \in { [g |-> 0, l |-> 0],
              [g |-> MAX_GSI_COUNT - 1, l |-> MAX_LSI_COUNT - 1],
              [g |-> MAX_GSI_COUNT, l |-> MAX_LSI_COUNT],
              [g |-> MAX_GSI_COUNT + 1, l |-> 0],
              [g |-> 0, l |-> MAX_LSI_COUNT + 1] } }
  \cup
  { [globals |-> << PlainGsi("g1", billing), PlainGsi("g1", billing) >>,
     locals |-> << >>],
    [globals |-> << PlainGsi("g1", billing) >>, locals |-> << PlainLsi("g1") >>] }

BillingChoices ==
  { << >>,
    << provisioned([readCapacity |-> FixedRead, writeCapacity |-> AutoscaledWrite]) >>,
    << provisioned([readCapacity |-> FixedRead, writeCapacity |-> FixedRead]) >> }

\* the encryptions a table is constructed with, when it is given one: the
\* customer's key without a key for any replica and with a key for the
\* other region
EncryptionChoices ==
  { awsManagedKey,
    customerManagedKey("arn:key/table", << >>),
    customerManagedKey("arn:key/table",
                       << [region |-> OtherRegion, arn |-> "arn:key/replica"] >>) }

\* the properties a table is constructed with
TablePropsChoices ==
  UNION { { [partitionKey |-> PartitionKey, sortKey |-> << >>,
             billing |-> billing,
             contributorInsights |-> << >>, deletionProtection |-> << >>,
             pointInTimeRecovery |-> << >>, tableClass |-> << >>,
             encryption |-> << >>,
             globalSecondaryIndexes |-> lists.globals,
             localSecondaryIndexes |-> lists.locals,
             replicas |-> << >>] : lists \in IndexLists(billing) } :
          billing \in BillingChoices }
  \cup
  { [partitionKey |-> PartitionKey, sortKey |-> << >>,
     billing |-> << >>,
     contributorInsights |-> << >>, deletionProtection |-> << >>,
     pointInTimeRecovery |-> << >>, tableClass |-> << >>,
     encryption |-> << encryption >>,
     globalSecondaryIndexes |-> << >>,
     localSecondaryIndexes |-> << >>,
     replicas |-> << >>] : encryption \in EncryptionChoices }

\* the properties addGlobalSecondaryIndex is called with
GsiPropsChoices ==
  [indexName : CallNames, partitionKey : {IndexPartitionKey},
   sortKey : { << >> },
   projectionType : { << >> }, nonKeyAttributes : { << >> },
   readCapacity : { << >>, << FixedRead >> },
   writeCapacity : { << >> }]
  \cup
  { [PlainGsi("x", << >>) EXCEPT !.writeCapacity = << FixedRead >>],
    [PlainGsi("x", << >>) EXCEPT !.readCapacity = << FixedRead >>,
                                 !.writeCapacity = << FixedRead >>] }

\* the properties addLocalSecondaryIndex is called with
LsiPropsChoices ==
  { [indexName |-> n, sortKey |-> << [name |-> "sk", type |-> "S"] >>,
     projectionType |-> pr.type, nonKeyAttributes |-> pr.attributes] :
      n \in CallNames,
      pr \in { [type |-> << >>, attributes |-> << >>],
               [type |-> << INCLUDE >>, attributes |-> << >>] } }

\* the properties addReplica is called with
ReplicaPropsChoices ==
  { [ReplicaOf(r) EXCEPT !.globalSecondaryIndexOptions = o] :
      r \in {Region, OtherRegion},
      o \in { << >>,
              << << [indexName |-> "x", contributorInsights |-> << >>,
                     readCapacity |-> << >>] >> >>,
              << << [indexName |-> "x", contributorInsights |-> << >>,
                     readCapacity |-> << ReplicaRead >>] >> >> } }
  \cup
  { ReplicaOf(TokenRegion),
    [ReplicaOf(OtherRegion) EXCEPT !.readCapacity = << ReplicaRead >>] }

\* a call on the table: what it changed stays, its error goes to the
\* caller, and what an earlier evaluation of the replicas produced is gone
Call(done) ==
  /\ table' = << done.this >>
  /\ tableError' = done.err
  /\ replicas' = << >>
  /\ UNCHANGED << treeVars, canonVars, branchVars, importVars, capacityVars >>

AddGlobalSecondaryIndex ==
  /\ table # << >>
  /\ \E props \in GsiPropsChoices :
       \E done \in { addGlobalSecondaryIndex(table[1], props) } : Call(done)

AddLocalSecondaryIndex ==
  /\ table # << >>
  /\ \E props \in LsiPropsChoices :
       \E done \in { addLocalSecondaryIndex(table[1], props) } : Call(done)

AddReplica ==
  /\ table # << >>
  /\ \E props \in ReplicaPropsChoices :
       \E done \in { addReplica(table[1], props) } : Call(done)

\* Lazy.any({ produce: () => this.replicaTables }) is resolved
ResolveReplicas ==
  /\ table # << >>
  /\ \E produced \in { replicaTables(table[1]) } :
        /\ tableError' = produced.err
        /\ replicas' = IF produced.err = "" THEN << produced.value >> ELSE << >>
  /\ UNCHANGED << treeVars, canonVars, branchVars, importVars, capacityVars, table >>

InitTable ==
  /\ InitTree
  /\ InitNoCanon
  /\ InitNoBranch
  /\ InitNoImport
  /\ InitNoCapacity
  /\ \E props \in TablePropsChoices :
       \E made \in { GlobalTable(Region, props) } :
          /\ table = IF made.err = "" THEN << made.this >> ELSE << >>
          /\ tableError = made.err
  /\ replicas = << >>

NextTable ==
  AddGlobalSecondaryIndex \/ AddLocalSecondaryIndex \/ AddReplica \/ ResolveReplicas

SpecTable == InitTable /\ [][NextTable]_vars

\* ------------------------------------------------------------------------
\* Vocabulary of the properties
\* ------------------------------------------------------------------------

\* the latest operation was a pass that returned
Returned == result # << >>

\* the tree the latest completed pass built
NewTree == Lookup(_tree[1], RootPath)

\* the latest pass returned after reading a previous tree.json
Compared == Returned /\ oldTree # << >>

RECURSIVE Nodes(_)
\* the nodes of a tree
Nodes(t) == {t} \cup UNION {Nodes(t.children[i]) : i \in 1..Len(t.children)}

Leaves(t) == {n \in Nodes(t) : n.children = << >>}

NodePaths(t) == {n.path : n \in Nodes(t)}

LeafPaths(t) == {n.path : n \in Leaves(t)}

LeafHashes(t) == {n.hash : n \in Leaves(t)}

Entry(n) == [hash |-> n.hash, path |-> n.path]

\* the entries of a Record from hash to path
Entries(rec) == {rec[i] : i \in 1..Len(rec)}

RECURSIVE LeafSeq(_)
RECURSIVE LeafSeqAll(_)
\* the leaves of a tree in the order of its children maps
LeafSeq(t) == IF t.children = << >> THEN << t >> ELSE LeafSeqAll(t.children)

LeafSeqAll(nodes) ==
  IF nodes = << >> THEN << >> ELSE LeafSeq(Head(nodes)) \o LeafSeqAll(Tail(nodes))

\* the leaf map of a tree: one entry for every hash a leaf has, with the path
\* of the last leaf that has it
LeafMap(t) ==
  LET ls == LeafSeq(t)
  IN {Entry(ls[i]) : i \in {j \in 1..Len(ls) :
                              \A k \in (j + 1)..Len(ls) : ls[k].hash # ls[j].hash}}

\* ------------------------------------------------------------------------
\* C1  If the visit of a single construct below the root throws, the pass is
\*     not aborted: nothing is thrown to the caller, tree.json is written and
\*     the tree holds every construct outside the subtree of the failed one.
\*     Stated as the claim has it; the code violates it.
\* ------------------------------------------------------------------------
C1_PassNotAborted ==
  Cardinality(thrown) = 1 =>
    /\ error = ""
    /\ Returned
    /\ file # << >>
    /\ \A p \in Paths(constructs) \cup {RootPath} :
         (\A t \in thrown : ~IsPrefix(t, p)) => p \in NodePaths(file[1].tree)

\* ------------------------------------------------------------------------
\* C2  When the introspection of exactly one construct throws, the resulting
\*     tree holds the parent of that construct and all its siblings, and
\*     exactly one warning is recorded.  Stated as the claim has it; the
\*     code violates it.
\* ------------------------------------------------------------------------
C2_OneWarningParentAndSiblingsKept ==
  \A t \in thrown :
    thrown = {t} =>
      /\ Len(warnings) = 1
      /\ _tree # << >>
      /\ error = ""
      /\ ParentPath(t) \in NodePaths(NewTree)
      /\ \A p \in Paths(constructs) :
           (ParentPath(p) = ParentPath(t) /\ p # t) => p \in NodePaths(NewTree)

\* ------------------------------------------------------------------------
\* C3  removed is the set of the entries hash -> path of the leaves of old
\*     whose path is the path of no leaf of new, and added the same with old
\*     and new exchanged.  Stated as the claim has it; the code violates it.
\* ------------------------------------------------------------------------
C3_DiffIsLeavesWithVanishedPath ==
  Compared =>
    /\ Entries(result[1].removed)
         = {Entry(n) : n \in {l \in Leaves(oldTree[1]) : l.path \notin LeafPaths(NewTree)}}
    /\ Entries(result[1].added)
         = {Entry(n) : n \in {l \in Leaves(NewTree) : l.path \notin LeafPaths(oldTree[1])}}

\* ------------------------------------------------------------------------
\* C4  (as claimed) removed holds exactly the entries of old whose hash is
\*     absent from new, added exactly the entries of new whose hash is
\*     absent from old.
\* ------------------------------------------------------------------------
C4_DiffJoinsOnHash ==
  Compared =>
    /\ Entries(result[1].removed)
         = {Entry(n) : n \in {l \in Leaves(oldTree[1]) : l.hash \notin LeafHashes(NewTree)}}
    /\ Entries(result[1].added)
         = {Entry(n) : n \in {l \in Leaves(NewTree) : l.hash \notin LeafHashes(oldTree[1])}}

\* ------------------------------------------------------------------------
\* C4  (amended) removed holds exactly the entries of the leaf map of old
\*     whose path is the path of no entry of the leaf map of new, and added
\*     exactly the entries of the leaf map of new whose path is the path of
\*     no entry of the leaf map of old.
\* ------------------------------------------------------------------------
C4_DiffJoinsOnPath ==
  Compared =>
    /\ Entries(result[1].removed)
         = {e \in LeafMap(oldTree[1]) : \A f \in LeafMap(NewTree) : f.path # e.path}
    /\ Entries(result[1].added)
         = {e \in LeafMap(NewTree) : \A f \in LeafMap(oldTree[1]) : f.path # e.path}

\* a leaf kept its path and changed its hash, and the pass reported nothing
C4_Witness ==
  /\ Compared
  /\ \E l \in Leaves(oldTree[1]), m \in Leaves(NewTree) :
       l.path = m.path /\ l.hash # m.hash /\ m.hash \notin LeafHashes(oldTree[1])
  /\ result[1] = NoDiff

\* ------------------------------------------------------------------------
\* C5  Every leaf of the old tree whose path is the path of no node of the
\*     new tree is in removed with its hash, and every leaf of the new tree
\*     whose path is the path of no node of the old tree is in added,
\*     whatever the other leaves are.  Stated as the claim has it; the code
\*     violates it.
\* ------------------------------------------------------------------------
C5_RemovedLeafReported ==
  Compared =>
    /\ \A l \in Leaves(oldTree[1]) :
         l.path \notin NodePaths(NewTree) => Entry(l) \in Entries(result[1].removed)
    /\ \A l \in Leaves(NewTree) :
         l.path \notin NodePaths(oldTree[1]) => Entry(l) \in Entries(result[1].added)

\* old and new have the same nodes and the same leaves, and only the leaf at
\* path p has another hash
OnlyHashDiffers(old, new, p) ==
  /\ NodePaths(old) = NodePaths(new)
  /\ LeafPaths(old) = LeafPaths(new)
  /\ p \in LeafPaths(old)
  /\ \A l \in Leaves(old), m \in Leaves(new) :
       l.path = m.path => (l.hash # m.hash <=> l.path = p)

\* ------------------------------------------------------------------------
\* C6  If a node is a leaf at the same path in the old and in the new tree
\*     and only its hash differs, neither removed nor added has an entry
\*     with that path.  Stated as the claim has it; the code violates it.
\* ------------------------------------------------------------------------
C6_ChangedLeafNotReported ==
  Compared =>
    \A p \in LeafPaths(NewTree) :
      OnlyHashDiffers(oldTree[1], NewTree, p) =>
        \A e \in Entries(result[1].removed) \cup Entries(result[1].added) : e.path # p

RECURSIVE SameTree(_, _)
\* the same tree: the same ids, paths, hashes and children at every node
SameTree(s, t) ==
  /\ s.id = t.id
  /\ s.path = t.path
  /\ s.hash = t.hash
  /\ Len(s.children) = Len(t.children)
  /\ \A i \in 1..Len(s.children) : SameTree(s.children[i], t.children[i])

\* ------------------------------------------------------------------------
\* C7  Diffing a tree against itself yields removed = {} and added = {},
\*     also when several leaves of the tree have the same hash.
\* ------------------------------------------------------------------------
C7_SelfDiffEmpty ==
  (Compared /\ SameTree(oldTree[1], NewTree)) => result[1] = NoDiff

\* a tree with two leaves of one hash was diffed against itself
C7_Witness ==
  /\ Compared
  /\ SameTree(oldTree[1], NewTree)
  /\ \E l \in Leaves(NewTree), m \in Leaves(NewTree) : l.path # m.path /\ l.hash = m.hash
  /\ result[1] = NoDiff

\* the hash recorded at every path of a lookup table
HashAt(lookup) == {<< lookup[i].path, lookup[i].hash >> : i \in 1..Len(lookup)}

\* ------------------------------------------------------------------------
\* C8  Every pass reads the tree.json of the pass before and only then
\*     overwrites it: the returned diff compares the persisted tree (old)
\*     with the tree the pass built (new), it is empty when there was no
\*     tree.json, and after the pass tree.json holds the tree of this pass.
\* ------------------------------------------------------------------------
C8_ReadThenOverwrite ==
  [][Returned' =>
       /\ NodePaths(NewTree') = Paths(constructs) \cup {RootPath}
       /\ oldTree' = (IF file = << >> THEN << >> ELSE << file[1].tree >>)
       /\ result'[1] = (IF file = << >> THEN NoDiff
                        ELSE [removed |-> treeDifference(file[1].tree, NewTree'),
                              added |-> treeDifference(NewTree', file[1].tree)])
       /\ file' = << stringify([version |-> "tree-0.1", tree |-> NewTree']) >>
    ]_vars

\* a pass found differences against the tree.json of the pass before and
\* replaced it with its own tree
C8_Witness ==
  /\ Compared
  /\ result[1].removed # << >>
  /\ result[1].added # << >>
  /\ file[1].tree # oldTree[1]
  /\ file[1] = stringify([version |-> "tree-0.1", tree |-> NewTree])

RECURSIVE SameContent(_, _)
RECURSIVE SameValue(_, _)
\* the same key / value pairs at every level, in whatever insertion order;
\* arrays element by element
SameContent(a, b) ==
  /\ Len(a) = Len(b)
  /\ \A i \in 1..Len(a) :
       \E j \in 1..Len(b) : a[i].key = b[j].key /\ SameValue(a[i].value, b[j].value)

SameValue(v, w) ==
  /\ v.t = w.t
  /\ v.s = w.s
  /\ IF v.t = "obj" THEN SameContent(v.kids, w.kids)
     ELSE /\ Len(v.kids) = Len(w.kids)
          /\ \A i \in 1..Len(v.kids) : SameValue(v.kids[i], w.kids[i])

RECURSIVE SameContentAnyArrayOrder(_, _)
RECURSIVE SameValueAnyArrayOrder(_, _)
\* the same, with the elements of an array taken in any order
SameContentAnyArrayOrder(a, b) ==
  /\ Len(a) = Len(b)
  /\ \A i \in 1..Len(a) :
       \E j \in 1..Len(b) :
         a[i].key = b[j].key /\ SameValueAnyArrayOrder(a[i].value, b[j].value)

SameValueAnyArrayOrder(v, w) ==
  /\ v.t = w.t
  /\ v.s = w.s
  /\ IF v.t = "obj" THEN SameContentAnyArrayOrder(v.kids, w.kids)
     ELSE /\ Len(v.kids) = Len(w.kids)
          /\ \E f \in Permutations(1..Len(v.kids)) :
               \A i \in 1..Len(v.kids) : SameValueAnyArrayOrder(v.kids[i], w.kids[f[i]])

\* ------------------------------------------------------------------------
\* C10 Two attribute mappings with the same key / value pairs at every
\*     level, built in different insertion orders, have the same canonical
\*     string; the order of the elements of an array is kept, not sorted.
\* ------------------------------------------------------------------------
C10_CanonicalOrderIndependent ==
  textA # << >> =>
    /\ SameContent(objA, objB) => textA = textB
    /\ (SameContentAnyArrayOrder(objA, objB) /\ ~SameContent(objA, objB)) => textA # textB

\* two mappings whose keys were inserted in different orders, at the top
\* and in a nested mapping, got one canonical string
C10_Witness ==
  /\ textA # << >>
  /\ Len(objA) = 2
  /\ SameContent(objA, objB)
  /\ objA[1].key # objB[1].key
  /\ \E i \in 1..2, j \in 1..2 :
       /\ objA[i].key = objB[j].key
       /\ objA[i].value.t = "obj"
       /\ objA[i].value # objB[j].value
  /\ textA = textB

\* ------------------------------------------------------------------------
\* C11  Every node a pass builds for a construct whose attributes are
\* present, the empty mapping included, has the hash of its canonicalized
\* attributes; and where the previous pass built a node for the same path
\* with the same attributes, the two hashes are equal whatever happened to
\* the children and their hashes between the two passes.
\* ------------------------------------------------------------------------

\* the nodes of a lookup table
LookupNodes(lookup) == {lookup[i] : i \in 1..Len(lookup)}

C11_HashOfAttributesOnly ==
  [][Returned' =>
       \A n \in LookupNodes(_tree'[1]) :
         n.attributes # << >> =>
           /\ n.hash = computeStringHash(canonicalize(n.attributes[1]))
           /\ _tree # << >> =>
                \A o \in LookupNodes(_tree[1]) :
                  (o.path = n.path /\ o.attributes = n.attributes) => o.hash = n.hash
    ]_vars

\* the hashes of the children of a node
ChildHashes(n) == {n.children[i].hash : i \in 1..Len(n.children)}

\* a pass has built a node with attributes whose children's hashes are not
\* those the tree.json of the pass before has under the same path, and the
\* node's own hash is the one in that tree.json
C11_Witness ==
  /\ Compared
  /\ \E n \in Nodes(NewTree), o \in Nodes(oldTree[1]) :
       /\ n.path = o.path
       /\ n.attributes # << >>
       /\ n.children # << >>
       /\ ChildHashes(n) # ChildHashes(o)
       /\ n.hash = o.hash

\* ------------------------------------------------------------------------
\* C12  Every node a pass builds for a construct without attributes has the
\* hash of its children's hashes, sorted as strings and joined.  The hash
\* depends on the sorted collection of the children's hashes only: every
\* order of the same children gives the same hash, and two such nodes are
\* given the same string to hash exactly when they have the same collection
\* of children's hashes.
\* ------------------------------------------------------------------------

\* the hashes of the children of a node, in the order of its children
ChildHashSeq(n) == [i \in 1..Len(n.children) |-> n.children[i].hash]

\* the orders a sequence can be put in
Orders(s) ==
  LET n == Len(s)
  IN {[i \in 1..n |-> s[f[i]]] :
        f \in {g \in [1..n -> 1..n] : \A i, j \in 1..n : g[i] = g[j] => i = j}}

IsSorted(s) == \A i \in 1..(Len(s) - 1) : ~LexLess(s[i + 1], s[i])

\* how often each string occurs in a sequence
Occurrences(s) ==
  [h \in {s[i] : i \in 1..Len(s)} |-> Cardinality({i \in 1..Len(s) : s[i] = h})]

\* the string a hash was computed from
Hashed(hash) == SubSeq(hash, 2, Len(hash) - 1)

RECURSIVE Concat(_)
\* the strings of a sequence one after the other, nothing in between
Concat(strs) == IF strs = << >> THEN << >> ELSE Head(strs) \o Concat(Tail(strs))

\* the nodes the latest completed pass built for constructs without attributes
Plain == {n \in LookupNodes(_tree[1]) : n.attributes = << >>}

\* the original statement: the hashed string is the sorted hashes with
\* nothing between them
C12_HashOfConcatenation ==
  _tree # << >> =>
    \A n \in Plain :
      \A t \in Orders(ChildHashSeq(n)) :
        IsSorted(t) => n.hash = computeStringHash(Concat(t))

\* the hashed string is the sorted hashes with a "," between every two
C12_HashOfSortedChildrenHashes ==
  _tree # << >> =>
    \A n \in Plain :
      /\ \A t \in Orders(ChildHashSeq(n)) :
           /\ IsSorted(t) => n.hash = computeStringHash(Join(t))
           /\ NodeHash(<< >>, SortStrings(t)) = n.hash
      /\ \A m \in Plain :
           Occurrences(ChildHashSeq(n)) = Occurrences(ChildHashSeq(m))
             <=> Hashed(n.hash) = Hashed(m.hash)

\* a pass has built a node without attributes whose children's hashes are
\* not in sorted order as the children stand, and another such node with
\* other children
C12_Witness ==
  /\ _tree # << >>
  /\ \E n, m \in Plain :
       /\ Len(n.children) >= 2
       /\ ~IsSorted(ChildHashSeq(n))
       /\ m.children # << >>
       /\ Occurrences(ChildHashSeq(n)) # Occurrences(ChildHashSeq(m))

\* ------------------------------------------------------------------------
\* Vocabulary of the branch properties
\* ------------------------------------------------------------------------

\* the step is a call of _getNodeBranch whose outcome is now in the state
BranchCalled == branchVars' # branchVars

\* the call in the state returned a node
BranchReturned == branchPath # << >> /\ branchError = "" /\ branch # << >>

\* a node is on top of a chain with one child at every level that ends,
\* levels down, at the node of the path
RECURSIVE IsChainTo(_, _, _)
IsChainTo(node, levels, path) ==
  IF levels = 1 THEN node.path = path /\ node.children = << >>
  ELSE /\ Len(node.children) = 1
       /\ IsChainTo(node.children[1], levels - 1, path)

\* ------------------------------------------------------------------------
\* C13  After a completed pass, the node _getNodeBranch returns for a path
\* three levels deep is a tree of depth three with exactly one child at
\* every level, the one on the chain to the path: no sibling of a node of
\* the chain is in it.
\* ------------------------------------------------------------------------
C13_BranchIsSingleChain ==
  (BranchReturned /\ Len(branchPath[1]) = 3) =>
    IsChainTo(branch[1], 3, branchPath[1])

\* ------------------------------------------------------------------------
\* C14  A call of _getNodeBranch made before any pass has produced the
\* lookup table, or with a path that is not in the lookup table, throws an
\* error to its caller and returns no node.
\* ------------------------------------------------------------------------
C14_UnknownPathThrows ==
  [][BranchCalled =>
       ((_tree = << >> \/ ~HasPath(_tree[1], branchPath'[1]))
          => (branchError' # "" /\ branch' = << >>))
    ]_vars

\* ------------------------------------------------------------------------
\* C15  The document in tree.json has the version marker and the node of
\* the root construct at its top level, and no node of it, at any depth,
\* has a parent back-reference.
\* ------------------------------------------------------------------------
C15_FileHasNoParentField ==
  file # << >> =>
    /\ file[1].version = "tree-0.1"
    /\ file[1].tree.path = RootPath
    /\ file[1].tree.id = "App"
    /\ \A n \in Nodes(file[1].tree) : n.parent = << >>

\* a pass has written tree.json from a tree in which a node has a parent
\* back-reference, and the document has a node for the same path
C15_Witness ==
  /\ Returned
  /\ \E n \in Nodes(NewTree) :
       /\ n.parent # << >>
       /\ \E f \in Nodes(file[1].tree) : f.path = n.path

\* ------------------------------------------------------------------------
\* C17  Capacity.autoscaled throws when minCapacity is greater than
\* maxCapacity, and when targetUtilizationPercent is given and is below 20
\* or above 90: no autoscaled Capacity has a minimum above its maximum or a
\* target utilization outside 20..90.
\* ------------------------------------------------------------------------
C17_InvalidCapacityRejected ==
  \A c \in {capacity[i] : i \in 1..Len(capacity)} :
    c.mode = "AUTOSCALED" =>
      /\ c._minCapacity[1] <= c._maxCapacity[1]
      /\ c._targetUtilizationPercent # << >> =>
           (c._targetUtilizationPercent[1] >= 20 /\ c._targetUtilizationPercent[1] <= 90)

\* ------------------------------------------------------------------------
\* C16  fromTableAttributes returns a table when exactly one of tableArn and
\* tableName is given: given only an ARN, the table has that ARN and the
\* resource name of the ARN as its name; given only a name, the table has
\* that name.  It throws when neither is given and when both are.
\* ------------------------------------------------------------------------

\* a call of the import has ended
Imported == imported # << >> \/ importError # ""

C16_ExactlyOneOfArnAndName ==
  Imported =>
    LET a == importAttrs[1]
        arnGiven == a.tableArn # << >>
        nameGiven == a.tableName # << >>
    IN /\ (arnGiven /\ ~nameGiven /\ a.tableArn[1].resourceName # << >>) =>
            /\ importError = ""
            /\ imported # << >>
            /\ imported[1].tableArn = a.tableArn[1]
            /\ imported[1].tableName = a.tableArn[1].resourceName[1]
       /\ (nameGiven /\ ~arnGiven /\ a.tableName[1] # "") =>
            /\ importError = ""
            /\ imported # << >>
            /\ imported[1].tableName = a.tableName[1]
       /\ (~arnGiven /\ ~nameGiven) => (importError # "" /\ imported = << >>)
       /\ (arnGiven /\ nameGiven) => (importError # "" /\ imported = << >>)

\* ------------------------------------------------------------------------
\* The secondary indexes of a table
\* ------------------------------------------------------------------------

DuplicateIndexName == "Duplicate secondary index name is not allowed"

\* the names of the indexes a table holds, the global ones first
IndexNames(this) ==
  [i \in 1..Len(this._globalSecondaryIndexes) |->
     this._globalSecondaryIndexes[i].indexName]
  \o [i \in 1..Len(this._localSecondaryIndexes) |->
        this._localSecondaryIndexes[i].indexName]

Registered(this, indexName) ==
  \E i \in 1..Len(IndexNames(this)) : IndexNames(this)[i] = indexName

\* C18: whatever calls were made on a table, by the constructor or later,
\* no index name is held twice, be it among the global indexes, among the
\* local ones, or once in each; and a call of addGlobalSecondaryIndex or
\* addLocalSecondaryIndex with a name the table holds throws and leaves the
\* table as it was.
C18_NoIndexNameTwice ==
  table # << >> =>
    /\ \A i, j \in 1..Len(IndexNames(table[1])) :
         IndexNames(table[1])[i] = IndexNames(table[1])[j] => i = j
    /\ \A props \in GsiPropsChoices :
         Registered(table[1], props.indexName) =>
           addGlobalSecondaryIndex(table[1], props) = Thrown(DuplicateIndexName, table[1])
    /\ \A props \in LsiPropsChoices :
         Registered(table[1], props.indexName) =>
           addLocalSecondaryIndex(table[1], props) = Thrown(DuplicateIndexName, table[1])

\* a call was refused for its name on a table that holds x as a local index
\* and g1 as a global one: whichever call it was, the name was held
C18_Witness ==
  /\ table # << >>
  /\ tableError = DuplicateIndexName
  /\ HasIndex(table[1]._localSecondaryIndexes, "x")
  /\ HasIndex(table[1]._globalSecondaryIndexes, "g1")

\* C19: whatever calls were made on a table, it holds at most MAX_GSI_COUNT
\* global and at most MAX_LSI_COUNT local secondary indexes; on a table
\* that holds the maximum, the call that would add one more throws and the
\* number of indexes stays at the maximum.
C19_AtMostMaxIndexes ==
  table # << >> =>
    /\ Len(table[1]._globalSecondaryIndexes) <= MAX_GSI_COUNT
    /\ Len(table[1]._localSecondaryIndexes) <= MAX_LSI_COUNT
    /\ Len(table[1]._globalSecondaryIndexes) = MAX_GSI_COUNT =>
         \A props \in GsiPropsChoices :
           \E done \in { addGlobalSecondaryIndex(table[1], props) } :
             /\ done.err # ""
             /\ Len(done.this._globalSecondaryIndexes) = MAX_GSI_COUNT
    /\ Len(table[1]._localSecondaryIndexes) = MAX_LSI_COUNT =>
         \A props \in LsiPropsChoices :
           \E done \in { addLocalSecondaryIndex(table[1], props) } :
             /\ done.err # ""
             /\ Len(done.this._localSecondaryIndexes) = MAX_LSI_COUNT

\* a call was refused for the number of global indexes on a table that
\* holds the maximum of both kinds
C19_Witness ==
  /\ table # << >>
  /\ tableError = "A table can only support a maximum of 20 global secondary indexes"
  /\ Len(table[1]._globalSecondaryIndexes) = MAX_GSI_COUNT
  /\ Len(table[1]._localSecondaryIndexes) = MAX_LSI_COUNT

\* ------------------------------------------------------------------------
\* The replicas of a table
\* ------------------------------------------------------------------------

\* the global indexes a synthesized replica lists
Listed(replica) ==
  IF replica.globalSecondaryIndexes = << >> THEN << >>
  ELSE replica.globalSecondaryIndexes[1]

\* C20: in a table with PROVISIONED billing, every replica of the
\* synthesized list, the one of the deployment region included, lists every
\* global secondary index of the table exactly once and with read
\* provisioned throughput settings, whether or not the options of the
\* replica mention the index.
C20_ReplicasListEveryIndex ==
  (table # << >> /\ replicas # << >> /\ table[1].billingMode = PROVISIONED) =>
    \A r \in 1..Len(replicas[1]) :
      \A g \in 1..Len(table[1]._globalSecondaryIndexes) :
        /\ Cardinality({ i \in 1..Len(Listed(replicas[1][r])) :
                           Listed(replicas[1][r])[i].indexName =
                             table[1]._globalSecondaryIndexes[g].indexName }) = 1
        /\ \A i \in 1..Len(Listed(replicas[1][r])) :
             Listed(replicas[1][r])[i].readProvisionedThroughputSettings # << >>

\* the replicas of a provisioned table with the global indexes x and g1
\* were synthesized: the one of the deployment region, which was not added,
\* and one whose options mention x and not g1
C20_Witness ==
  /\ table # << >>
  /\ replicas # << >>
  /\ table[1].billingMode = PROVISIONED
  /\ HasIndex(table[1]._globalSecondaryIndexes, "x")
  /\ HasIndex(table[1]._globalSecondaryIndexes, "g1")
  /\ Len(replicas[1]) = 2
  /\ replicas[1][1].region = Region
  /\ \A i \in 1..Len(table[1]._replicaTables) :
       /\ table[1]._replicaTables[i].region # Region
       /\ table[1]._replicaTables[i].globalSecondaryIndexOptions # << >>

\* ------------------------------------------------------------------------
\* The lookup table of a pass
\* ------------------------------------------------------------------------

\* C21: after a completed pass the lookup table from path to node has
\* exactly one entry for every node of the tree the pass built and no other
\* entry, and the entry of a parent was recorded after the entries of all
\* of its children.
C21_LookupIsTreeInPostOrder ==
  Returned =>
    /\ {_tree[1][i] : i \in 1..Len(_tree[1])} = Nodes(NewTree)
    /\ \A i, j \in 1..Len(_tree[1]) : _tree[1][i].path = _tree[1][j].path => i = j
    /\ NodePaths(NewTree) = Paths(constructs) \cup {RootPath}
    /\ \A i, j \in 1..Len(_tree[1]) :
         (/\ _tree[1][j].path # RootPath
          /\ ParentPath(_tree[1][j].path) = _tree[1][i].path) => j < i

\* a pass completed on a structure with a construct two levels below the
\* root
C21_Witness ==
  /\ Returned
  /\ << "A", "B" >> \in Paths(constructs)
  /\ << "B" >> \in Paths(constructs)
  /\ Len(_tree[1]) = Cardinality(Paths(constructs)) + 1

\* ------------------------------------------------------------------------
\* The report of a pass
\* ------------------------------------------------------------------------

\* C22: every path reported in removed is the path of no node of the new
\* tree, and every path reported in added is the path of no node of the old
\* tree, also when the node is a leaf in one tree and has children in the
\* other.  Stated as the claim has it; the code violates it.
C22_ReportedPathsAreGone ==
  Compared =>
    /\ \A e \in Entries(result[1].removed) : e.path \notin NodePaths(NewTree)
    /\ \A e \in Entries(result[1].added) : e.path \notin NodePaths(oldTree[1])

\* C23: when a pass follows a completed pass on the unchanged construct
\* structure and the same output directory, it returns removed = {} and
\* added = {}, whatever the structure, also with a construct id or an
\* attribute key 'parent'.  Stated as the claim has it; the code violates
\* it.
C23_RerunReportsNothing ==
  [][(Returned /\ Returned') => result'[1] = NoDiff]_vars

\* ------------------------------------------------------------------------
\* tree.json read back
\* ------------------------------------------------------------------------

RECURSIVE WithoutParent(_)
\* a tree without the parent back-references of its nodes
WithoutParent(n) ==
  [n EXCEPT !.parent = << >>,
            !.children = [i \in 1..Len(n.children) |-> WithoutParent(n.children[i])]]

\* C24: the tree read back from the tree.json a pass wrote is the tree the
\* pass built except for the parent back-references: every node is there
\* with its id, path, children, attributes and hash, also a child whose id
\* is 'parent' and an attribute whose key is 'parent'.  Stated as the claim
\* has it; the code violates it.
C24_RoundTripKeepsTree ==
  Returned => file[1].tree = WithoutParent(NewTree)

\* ------------------------------------------------------------------------
\* The canonical string as an identity of the attributes
\* ------------------------------------------------------------------------

\* C25: canonicalize is injective on attribute mappings: two mappings that
\* differ in a value at any level, as null and an empty object do, have
\* different canonical strings.  Stated as the claim has it; the code
\* violates it.
C25_CanonicalizeInjective ==
  (textA # << >> /\ ~SameContent(objA, objB)) => textA # textB

\* ------------------------------------------------------------------------
\* The top of a branch
\* ------------------------------------------------------------------------

\* C26: after a completed pass, the node _getNodeBranch returns for a path
\* of the lookup table is the node of the root construct; for the path of a
\* construct directly below the root it has that construct's node as its
\* only child.  Stated as the claim has it; the code violates it.
C26_BranchStartsAtRoot ==
  (BranchReturned /\ HasPath(_tree[1], branchPath[1])) =>
    /\ branch[1].path = RootPath
    /\ branch[1].id = "App"
    /\ Len(branchPath[1]) = 1 =>
         /\ Len(branch[1].children) = 1
         /\ branch[1].children[1].path = branchPath[1]

\* ------------------------------------------------------------------------
\* Calls on a table that throw
\* ------------------------------------------------------------------------

\* C27: a call of addGlobalSecondaryIndex or addLocalSecondaryIndex that
\* throws leaves the table as it was: its attribute definitions, its set
\* of non-key attributes, the read capacities recorded for its global
\* indexes and both maps of indexes.  Stated as the claim has it; the code
\* violates it.
C27_ThrowingAddChangesNothing ==
  table # << >> =>
    /\ \A props \in GsiPropsChoices :
         \E done \in { addGlobalSecondaryIndex(table[1], props) } :
           done.err # "" => done.this = table[1]
    /\ \A props \in LsiPropsChoices :
         \E done \in { addLocalSecondaryIndex(table[1], props) } :
           done.err # "" => done.this = table[1]

\* ------------------------------------------------------------------------
\* The regions of the replicas
\* ------------------------------------------------------------------------

\* the regions of the replicas that were added to a table
AddedRegions(this) ==
  {this._replicaTables[i].region : i \in 1..Len(this._replicaTables)}

\* C28: whatever replicas were added, the synthesized list of replicas has
\* every added region exactly once and the deployment region exactly once,
\* whether or not a replica of the deployment region was added; and
\* addReplica with a region that was added before, or with a region that
\* is an unresolved token, throws and leaves the table as it was.
C28_ReplicaRegionsOnce ==
  table # << >> =>
    /\ replicas # << >> =>
         /\ \A i, j \in 1..Len(replicas[1]) :
              replicas[1][i].region = replicas[1][j].region => i = j
         /\ {replicas[1][i].region : i \in 1..Len(replicas[1])}
              = AddedRegions(table[1]) \cup {table[1].region}
    /\ \A props \in ReplicaPropsChoices :
         (props.region \in AddedRegions(table[1]) \/ isUnresolved(props.region)) =>
           \E done \in { addReplica(table[1], props) } :
             done.err # "" /\ done.this = table[1]

\* the replicas were synthesized of a table to which a replica of the
\* deployment region and one of another region were added
C28_Witness ==
  /\ table # << >>
  /\ replicas # << >>
  /\ AddedRegions(table[1]) = {Region, OtherRegion}
  /\ Len(replicas[1]) = 2

\* ------------------------------------------------------------------------
\* Tables billed per request
\* ------------------------------------------------------------------------

\* the properties of a replica ask for a read capacity, for the replica or
\* for one of its global indexes
AsksReadCapacity(props) ==
  \/ props.readCapacity # << >>
  \/ /\ props.globalSecondaryIndexOptions # << >>
     /\ \E i \in 1..Len(props.globalSecondaryIndexOptions[1]) :
          props.globalSecondaryIndexOptions[1][i].readCapacity # << >>

\* C29: in a table with billing mode PAY_PER_REQUEST nothing synthesized
\* has provisioned throughput settings: not the table, no global index, no
\* replica and no global index of a replica; and every attempt to give a
\* read or write capacity, to a global index or to a replica, ends in an
\* error, of the call or of the synthesis of the replicas after it.  Stated
\* as the claim has it; the code violates it.
C29_OnDemandHasNoThroughput ==
  (table # << >> /\ table[1].billingMode = PAY_PER_REQUEST) =>
    /\ table[1].writeProvisioning = << >>
    /\ \A i \in 1..Len(table[1]._globalSecondaryIndexes) :
         table[1]._globalSecondaryIndexes[i].writeProvisionedThroughputSettings = << >>
    /\ replicas # << >> =>
         \A r \in 1..Len(replicas[1]) :
           /\ replicas[1][r].readProvisionedThroughputSettings = << >>
           /\ \A i \in 1..Len(Listed(replicas[1][r])) :
                Listed(replicas[1][r])[i].readProvisionedThroughputSettings = << >>
    /\ \A props \in GsiPropsChoices :
         (props.readCapacity # << >> \/ props.writeCapacity # << >>) =>
           addGlobalSecondaryIndex(table[1], props).err # ""
    /\ \A props \in ReplicaPropsChoices :
         AsksReadCapacity(props) =>
           \E done \in { addReplica(table[1], props) } :
             done.err # "" \/ replicaTables(done.this).err # ""

\* ------------------------------------------------------------------------
\* The keys of the replicas
\* ------------------------------------------------------------------------

\* the table is encrypted with a key of the customer
CustomerManaged(this) ==
  this.encryption # << >> /\ this.encryption[1].type = CUSTOMER_MANAGED

\* C30: with customer-managed encryption the synthesis of the replicas
\* throws when a replica of a region other than the deployment region has
\* no entry in replicaKeyArns; when it succeeds, the replica of the
\* deployment region has the ARN of the table key and every other replica
\* the ARN given for its region; with another encryption type, or none, no
\* replica has an SSE specification.
C30_ReplicaKeys ==
  table # << >> =>
    /\ (/\ CustomerManaged(table[1])
        /\ \E region \in AddedRegions(table[1]) \ {table[1].region} :
             ~HasKeyArn(table[1].encryption[1].replicaKeyArns, region))
         => replicaTables(table[1]).err # ""
    /\ (replicas # << >> /\ CustomerManaged(table[1])) =>
         \A r \in 1..Len(replicas[1]) :
           IF replicas[1][r].region = table[1].region
           THEN replicas[1][r].sseSpecification
                  = << [kmsMasterKeyId |-> table[1].encryption[1].tableKey] >>
           ELSE \E i \in 1..Len(table[1].encryption[1].replicaKeyArns) :
                  /\ table[1].encryption[1].replicaKeyArns[i].region = replicas[1][r].region
                  /\ replicas[1][r].sseSpecification
                       = << [kmsMasterKeyId |-> table[1].encryption[1].replicaKeyArns[i].arn] >>
    /\ (replicas # << >> /\ ~CustomerManaged(table[1])) =>
         \A r \in 1..Len(replicas[1]) : replicas[1][r].sseSpecification = << >>

\* the replicas of a table encrypted with a key of the customer were
\* synthesized: the replica of the deployment region and one of another
\* region
C30_Witness ==
  /\ table # << >>
  /\ CustomerManaged(table[1])
  /\ replicas # << >>
  /\ AddedRegions(table[1]) = {OtherRegion}
  /\ Len(replicas[1]) = 2

====
